---------------------------- MODULE Spec2Model ----------------------------
(***************************************************************************)
(* The object graph engine of ProgressiveDraw: the object slice, the       *)
(* history slice, the clipboard slice and the part of the ui slice they    *)
(* read (selection, text editing), as one state machine.                   *)
(*                                                                         *)
(* Ids are natural numbers handed out by a counter (nanoid never repeats); *)
(* Object.keys / Object.values of the object map iterate in insertion      *)
(* order, which is the order of allocation, hence ascending ids.           *)
(* The id 0 stands for `undefined`.  JavaScript numbers are modelled as    *)
(* exact rationals <<numerator, denominator>>.                             *)
(*                                                                         *)
(* Besides the store the model keeps three history variables: origin maps  *)
(* every object paste() created to the object it is a copy of, last is the *)
(* call that led to the state, nOps counts the calls.                      *)
(***************************************************************************)
EXTENDS Integers, Sequences, FiniteSets, TLC

VARIABLES objects, past, future, clipboard, ui, currentFrame, nextId, origin, last, nOps

vars == <<objects, past, future, clipboard, ui, currentFrame, nextId, origin, last, nOps>>

(***************************************************************************)
(* Bounds of the model.                                                    *)
(***************************************************************************)
MaxOps == 2
MaxId == 12
MaxDragCalls == 2

(***************************************************************************)
(* Numbers.                                                                *)
(***************************************************************************)
RECURSIVE GCD(_, _)
GCD(a, b) == IF b = 0 THEN a ELSE GCD(b, a % b)

Norm(n, d) ==
  LET g == GCD(IF n < 0 THEN -n ELSE n, IF d < 0 THEN -d ELSE d)
      s == IF d < 0 THEN -1 ELSE 1
  IN  IF n = 0 THEN <<0, 1>> ELSE <<(s * n) \div g, (s * d) \div g>>

R(n) == <<n, 1>>
RAdd(a, b) == IF a[2] = 1 /\ b[2] = 1 THEN <<a[1] + b[1], 1>>
              ELSE Norm(a[1] * b[2] + b[1] * a[2], a[2] * b[2])
RSub(a, b) == IF a[2] = 1 /\ b[2] = 1 THEN <<a[1] - b[1], 1>>
              ELSE Norm(a[1] * b[2] - b[1] * a[2], a[2] * b[2])
RMul(a, b) == Norm(a[1] * b[1], a[2] * b[2])
\* a / b for b # 0 (every divisor of the code is a non-zero constant or `x || 1`)
RDiv(a, b) == Norm(a[1] * b[2], a[2] * b[1])
RLe(a, b) == a[1] * b[2] <= b[1] * a[2]
\* x || d : 0 (like undefined and NaN) is falsy
ROr(a, d) == IF a[1] = 0 THEN d ELSE a

(***************************************************************************)
(* Sequences and maps.                                                     *)
(***************************************************************************)
Range(s) == {s[i] : i \in DOMAIN s}
Contains(s, x) == \E i \in DOMAIN s : s[i] = x

RECURSIVE SeqWithout(_, _)
\* s.filter((cid) => cid !== x)
SeqWithout(s, x) ==
  IF s = <<>> THEN <<>>
  ELSE IF Head(s) = x THEN SeqWithout(Tail(s), x)
       ELSE <<Head(s)>> \o SeqWithout(Tail(s), x)

RECURSIVE SeqKeep(_, _)
\* s.filter((x) => x is in the set S)
SeqKeep(s, S) ==
  IF s = <<>> THEN <<>>
  ELSE IF Head(s) \in S THEN <<Head(s)>> \o SeqKeep(Tail(s), S)
       ELSE SeqKeep(Tail(s), S)

RECURSIVE Dedup(_)
\* Array.from(new Set(s)): the first occurrence of each element, in order
Dedup(s) ==
  IF s = <<>> THEN <<>>
  ELSE <<Head(s)>> \o Dedup(SeqWithout(Tail(s), Head(s)))

RECURSIVE SortedSeq(_)
\* the elements of a finite set of numbers in ascending order: Object.keys of
\* a map whose keys were inserted in the order of their ids
SortedSeq(S) ==
  IF S = {} THEN <<>>
  ELSE LET m == CHOOSE x \in S : \A y \in S : x <= y
       IN  <<m>> \o SortedSeq(S \ {m})

Has(objs, id) == id \in DOMAIN objs
\* { ...objs, [id]: o }
Put(objs, id, o) == [k \in (DOMAIN objs) \cup {id} |-> IF k = id THEN o ELSE objs[k]]
\* delete objs[id]
Del(objs, id) == [k \in (DOMAIN objs) \ {id} |-> objs[k]]
EmptyMap == [k \in {} |-> 0]

(***************************************************************************)
(* CanvasObject.                                                           *)
(***************************************************************************)
NoId == 0
NoConn == [objectId |-> NoId, anchorId |-> "none"]
Conn(o, a) == [objectId |-> o, anchorId |-> a]

Pt(x, y) == <<x, y>>
Rect(x, y, w, h) ==
  [x |-> x, y |-> y, width |-> w, height |-> h, hasPoints |-> FALSE, points |-> <<>>]
NoGeometry == Rect(R(0), R(0), R(0), R(0))

\* A CanvasObject.  hasChildren / hasGeometry say whether the optional field is
\* defined; type "undefined" and hasGeometry = FALSE is the object that
\* { ...undefined, parentId } builds.
Obj(id, type, geometry) ==
  [id |-> id, type |-> type, parentId |-> NoId, hasChildren |-> FALSE,
   children |-> <<>>, hasGeometry |-> TRUE, geometry |-> geometry, text |-> "",
   appearFrame |-> 0, startConnection |-> NoConn, endConnection |-> NoConn]

IsConnector(o) == o.type \in {"arrow", "line"}


(***************************************************************************)
(* whiteboardUtils.ts                                                      *)
(***************************************************************************)
GROUP_PADDING == 10

\* The accumulator of calculateGroupBounds is [hasChildren, inf, throws, minX,
\* minY, maxX, maxY]: inf says that min/max still are +-Infinity, throws that a
\* child without geometry was read (a TypeError).
BoundsInclude(acc, lox, loy, hix, hiy) ==
  IF acc.inf
  THEN [acc EXCEPT !.inf = FALSE, !.minX = lox, !.minY = loy, !.maxX = hix, !.maxY = hiy]
  ELSE [acc EXCEPT !.minX = IF RLe(@, lox) THEN @ ELSE lox,
                   !.minY = IF RLe(@, loy) THEN @ ELSE loy,
                   !.maxX = IF RLe(@, hix) THEN hix ELSE @,
                   !.maxY = IF RLe(@, hiy) THEN hiy ELSE @]

RECURSIVE BoundsPoints(_, _)
BoundsPoints(acc, pts) ==
  IF pts = <<>> THEN acc
  ELSE BoundsPoints(BoundsInclude(acc, Head(pts)[1], Head(pts)[2], Head(pts)[1], Head(pts)[2]),
                    Tail(pts))

BoundsChild(acc, child) ==
  IF ~child.hasGeometry THEN [acc EXCEPT !.hasChildren = TRUE, !.throws = TRUE]
  ELSE IF child.geometry.hasPoints
       THEN BoundsPoints([acc EXCEPT !.hasChildren = TRUE], child.geometry.points)
       ELSE LET g == child.geometry
            IN  BoundsInclude([acc EXCEPT !.hasChildren = TRUE], g.x, g.y,
                              RAdd(g.x, g.width), RAdd(g.y, g.height))

RECURSIVE BoundsFold(_, _, _)
BoundsFold(objs, childrenIds, acc) ==
  IF childrenIds = <<>> \/ acc.throws THEN acc
  ELSE BoundsFold(objs, Tail(childrenIds),
                  IF Has(objs, Head(childrenIds))
                  THEN BoundsChild(acc, objs[Head(childrenIds)])
                  ELSE acc)

\* calculateGroupBounds(objects, childrenIds): isNull for the null result,
\* throws for the TypeError, finite = FALSE when the box is built of +-Infinity
\* (children that hold no point at all).
BoundsResult(acc) ==
  [throws |-> acc.throws,
   isNull |-> ~acc.hasChildren,
   finite |-> ~acc.inf,
   box |-> IF acc.throws \/ acc.inf THEN NoGeometry
           ELSE Rect(RSub(acc.minX, R(GROUP_PADDING)), RSub(acc.minY, R(GROUP_PADDING)),
                     RAdd(RSub(acc.maxX, acc.minX), R(2 * GROUP_PADDING)),
                     RAdd(RSub(acc.maxY, acc.minY), R(2 * GROUP_PADDING)))]

calculateGroupBounds(objs, childrenIds) ==
  BoundsResult(BoundsFold(objs, childrenIds,
                          [hasChildren |-> FALSE, inf |-> TRUE, throws |-> FALSE,
                           minX |-> R(0), minY |-> R(0), maxX |-> R(0), maxY |-> R(0)]))

RECURSIVE getRecursiveChildrenIds(_, _, _)
getRecursiveChildrenIds(objs, targetIds, collected) ==
  IF targetIds = <<>> THEN collected
  ELSE LET id == Head(targetIds)
       IN  IF id \in collected
           THEN getRecursiveChildrenIds(objs, Tail(targetIds), collected)
           ELSE LET c1 == collected \cup {id}
                    c2 == IF Has(objs, id) /\ objs[id].hasChildren
                          THEN getRecursiveChildrenIds(objs, objs[id].children, c1)
                          ELSE c1
                IN  getRecursiveChildrenIds(objs, Tail(targetIds), c2)

getAnchorPos(obj, anchorId) ==
  LET g == obj.geometry
  IN  CASE anchorId = "n" -> Pt(RAdd(g.x, RDiv(g.width, R(2))), g.y)
        [] anchorId = "s" -> Pt(RAdd(g.x, RDiv(g.width, R(2))), RAdd(g.y, g.height))
        [] anchorId = "e" -> Pt(RAdd(g.x, g.width), RAdd(g.y, RDiv(g.height, R(2))))
        [] anchorId = "w" -> Pt(g.x, RAdd(g.y, RDiv(g.height, R(2))))
        [] OTHER -> Pt(g.x, g.y)

\* points[0] = v
SetFirst(pts, v) == IF pts = <<>> THEN <<v>> ELSE [pts EXCEPT ![1] = v]
\* points[points.length - 1] = v (index -1 of an empty array is no element)
SetLast(pts, v) == IF pts = <<>> THEN pts ELSE [pts EXCEPT ![Len(pts)] = v]


\* One connector `other` as getUpdatedConnections rewrites it.
FollowAnchor(other, modifiedObj) ==
  LET p0 == other.geometry.points
      p1 == IF other.startConnection.objectId = modifiedObj.id
            THEN SetFirst(p0, getAnchorPos(modifiedObj, other.startConnection.anchorId))
            ELSE p0
      p2 == IF other.endConnection.objectId = modifiedObj.id
            THEN SetLast(p1, getAnchorPos(modifiedObj, other.endConnection.anchorId))
            ELSE p1
  IN  [other EXCEPT !.geometry.points = p2, !.geometry.hasPoints = TRUE]

\* getUpdatedConnections(modifiedObj, objects) merged into objects
\* (Object.assign(newObjects, updatedConnections)).
getUpdatedConnections(modifiedObj, objs) ==
  IF modifiedObj.type \in {"rectangle", "diamond", "ellipse", "group"}
  THEN [k \in DOMAIN objs |->
          IF /\ IsConnector(objs[k])
             /\ \/ objs[k].startConnection.objectId = modifiedObj.id
                \/ objs[k].endConnection.objectId = modifiedObj.id
          THEN FollowAnchor(objs[k], modifiedObj)
          ELSE objs[k]]
  ELSE objs

(***************************************************************************)
(* objectSlice.  A handler works on w = [o |-> newObjects, t |-> threw]:   *)
(* the shallow copy of the object map it builds, and whether it has thrown *)
(* (zustand then leaves the state as it was).                              *)
(***************************************************************************)
W(objs, threw) == [o |-> objs, t |-> threw]

\* The store as one record, and the result of a handler.
Store ==
  [objects |-> objects, past |-> past, future |-> future, clipboard |-> clipboard,
   ui |-> ui, currentFrame |-> currentFrame, nextId |-> nextId]

\* A recording that keeps the redo stack.
PushHistoryKeepingFuture(s) == [s EXCEPT !.past = Append(s.past, s.objects)]

\* past: [...state.past, state.objects], future: []
PushHistory(s) == [s EXCEPT !.past = Append(s.past, s.objects), !.future = <<>>]
\* a history update that records whatever the caller asks for
HistoryUpdateAlways(s, saveHistory) == PushHistory(s)
HistoryUpdate(s, saveHistory) == IF saveHistory THEN PushHistory(s) ELSE s

\* What a handler returns: the new store, whether it threw, and the objects of
\* state.objects it assigned to in place (id -> the object as it then reads).
Result(s, threw) == [s |-> s, threw |-> threw, leak |-> EmptyMap]

\* objects[gid] = { ...objects[gid], geometry: bounds } when bounds is not null
\* if (newBounds) objects[gid] = { ...objects[gid], geometry: newBounds }
AssignBounds(w, gid, b) ==
  IF b.throws THEN W(w.o, TRUE)
  ELSE IF b.isNull THEN w
  ELSE W([w.o EXCEPT ![gid].geometry = b.box], FALSE)

SetBounds(w, gid, childrenIds) ==
  AssignBounds(w, gid, calculateGroupBounds(w.o, childrenIds))

removeFromOldParent(w, childId, newParentId) ==
  IF w.t \/ ~Has(w.o, childId) THEN w
  ELSE LET pid == w.o[childId].parentId
       IN  IF pid # NoId /\ Has(w.o, pid) /\ pid # newParentId /\ w.o[pid].hasChildren
           THEN LET kept == SeqWithout(w.o[pid].children, childId)
                    o1 == [w.o EXCEPT ![pid].children = kept]
                IN  IF Len(kept) > 0
                    THEN SetBounds(W(o1, FALSE), pid, kept)
                    ELSE W(Del(o1, pid), FALSE)
           ELSE w

\* appearFrame values that are not numbers
FrameUndefined == -1
FrameNaN == -2
FrameNull == -3

\* newObjects[id] = { ...newObjects[id], parentId: pid }.  For an id that is not
\* a key this stores { ...undefined, parentId: pid }: an object with no id, no
\* type, no geometry and no appearFrame.
SetParent(objs, id, pid) ==
  IF Has(objs, id) THEN [objs EXCEPT ![id].parentId = pid]
  ELSE Put(objs, id,
           [Obj(NoId, "undefined", NoGeometry) EXCEPT
              !.hasGeometry = FALSE, !.parentId = pid, !.appearFrame = FrameUndefined])

\* objects[gid] = { ...objects[gid], children: [...new Set([...children, id])] }
AddChild(objs, gid, id) ==
  [objs EXCEPT ![gid].children = Dedup(objs[gid].children \o <<id>>),
               ![gid].hasChildren = TRUE]

\* The parent two connection targets share, or NoId (addObject 99-106,
\* updateObject 202-212).
SharedParent(objs, obj) ==
  LET startId == obj.startConnection.objectId
      endId == obj.endConnection.objectId
      startParent == IF Has(objs, startId) THEN objs[startId].parentId ELSE NoId
      endParent == IF Has(objs, endId) THEN objs[endId].parentId ELSE NoId
  IN  IF startId # NoId /\ endId # NoId /\ startParent # NoId /\ startParent = endParent
      THEN startParent ELSE NoId

\* addObject 127-131: what set() stores
AddReturn(s, id, w) ==
  IF w.t THEN Result(s, TRUE)
  ELSE Result([PushHistory(s) EXCEPT !.objects = w.o, !.nextId = id + 1], FALSE)

\* addObject 94-125, o0 = { ...state.objects, [id]: newObject }
AddInserted(s, id, newObject, o0) ==
  LET target == SharedParent(o0, newObject)
  IN  AddReturn(s, id,
                IF IsConnector(newObject) /\ target # NoId /\ Has(o0, target)
                THEN SetBounds(W([AddChild(o0, target, id) EXCEPT ![id].parentId = target],
                                 FALSE),
                               target, AddChild(o0, target, id)[target].children)
                ELSE W(o0, FALSE))

addObject(s, spec) ==
  AddInserted(s, s.nextId, [spec EXCEPT !.id = s.nextId],
              Put(s.objects, s.nextId, [spec EXCEPT !.id = s.nextId]))

(***************************************************************************)
(* updateObject.  updates = [keys |-> the keys the partial object holds,   *)
(* geometry, startConnection, endConnection, text, appearFrame]; a key that *)
(* is held with the value undefined reads NoConn.                          *)
(***************************************************************************)
Merge(obj, updates) ==
  [obj EXCEPT
     !.geometry = IF "geometry" \in updates.keys THEN updates.geometry ELSE @,
     !.hasGeometry = IF "geometry" \in updates.keys THEN TRUE ELSE @,
     !.startConnection =
        IF "startConnection" \in updates.keys THEN updates.startConnection ELSE @,
     !.endConnection =
        IF "endConnection" \in updates.keys THEN updates.endConnection ELSE @,
     !.text = IF "text" \in updates.keys THEN updates.text ELSE @,
     !.appearFrame = IF "appearFrame" \in updates.keys THEN updates.appearFrame ELSE @]

\* newGeom.x + (v - oldGeom.x) * scale
Rescale(newOrigin, v, oldOrigin, scale) ==
  RAdd(newOrigin, RMul(RSub(v, oldOrigin), scale))

RECURSIVE ScalePoints(_, _, _, _, _)
ScalePoints(pts, oldGeom, newGeom, scaleX, scaleY) ==
  IF pts = <<>> THEN <<>>
  ELSE <<Pt(Rescale(newGeom.x, Head(pts)[1], oldGeom.x, scaleX),
            Rescale(newGeom.y, Head(pts)[2], oldGeom.y, scaleY))>>
       \o ScalePoints(Tail(pts), oldGeom, newGeom, scaleX, scaleY)

\* One child of a resized group (updateObject 152-187).
ScaleChild(child, oldGeom, newGeom, scaleX, scaleY) ==
  IF child.geometry.hasPoints
  THEN [child EXCEPT !.geometry.points =
          ScalePoints(child.geometry.points, oldGeom, newGeom, scaleX, scaleY)]
  ELSE [child EXCEPT
          !.geometry.x = Rescale(newGeom.x, child.geometry.x, oldGeom.x, scaleX),
          !.geometry.y = Rescale(newGeom.y, child.geometry.y, oldGeom.y, scaleY),
          !.geometry.width = RMul(child.geometry.width, scaleX),
          !.geometry.height = RMul(child.geometry.height, scaleY)]

RECURSIVE ScaleChildren(_, _, _, _, _, _)
ScaleChildren(w, childIds, oldGeom, newGeom, scaleX, scaleY) ==
  IF childIds = <<>> \/ w.t THEN w
  ELSE LET c == Head(childIds)
           w1 == IF ~Has(w.o, c) THEN w
                 ELSE IF ~w.o[c].hasGeometry THEN W(w.o, TRUE)
                 ELSE W([w.o EXCEPT ![c] = ScaleChild(@, oldGeom, newGeom, scaleX, scaleY)],
                        FALSE)
       IN  ScaleChildren(w1, Tail(childIds), oldGeom, newGeom, scaleX, scaleY)

\* updateObject 144-188: a group whose geometry is replaced rescales its children.
ResizeGroup(w, obj, newObj, updates) ==
  IF newObj.type = "group" /\ "geometry" \in updates.keys /\ obj.hasChildren
  THEN LET oldGeom == obj.geometry
           newGeom == newObj.geometry
           scaleX == RDiv(newGeom.width, ROr(oldGeom.width, R(1)))
           scaleY == RDiv(newGeom.height, ROr(oldGeom.height, R(1)))
       IN  ScaleChildren(w, obj.children, oldGeom, newGeom, scaleX, scaleY)
  ELSE w

\* What the reparenting of updateObject hands on: the map, whether it threw,
\* and the objects of state.objects it assigned to in place.
NoLeak(w) == [o |-> w.o, t |-> w.t, leak |-> EmptyMap]

\* updateObject 230-236: if (newBounds) finalObjects[target].geometry = newBounds
JoinedBounds(o2, target, b) ==
  [o |-> IF b.throws \/ b.isNull THEN o2 ELSE [o2 EXCEPT ![target].geometry = b.box],
   t |-> b.throws,
   leak |-> EmptyMap]

Joined(o2, target) ==
  JoinedBounds(o2, target, calculateGroupBounds(o2, o2[target].children))

\* The join written without the fresh copy of the group: children and geometry
\* are assigned to the object state.objects holds.
AddToNewParentInPlace(w, id, target) ==
  LET r == Joined([AddChild(w.o, target, id) EXCEPT ![id].parentId = target], target)
  IN  [r EXCEPT !.leak = (target :> r.o[target])]

\* updateObject 221-236: the connector id joins the group target.  The group is
\* first replaced by a fresh object ({ ...newParent, children }), so the
\* assignment finalObjects[target].geometry = newBounds writes to an object no
\* snapshot holds: nothing leaks.
AddToNewParent(w, id, target) ==
  Joined([AddChild(w.o, target, id) EXCEPT ![id].parentId = target], target)

\* updateObject 220-239, w1 the map after the connector left its old parent
JoinOrLeave(w1, id, target) ==
  IF w1.t THEN NoLeak(w1)
  ELSE IF target # NoId /\ Has(w1.o, target) THEN AddToNewParent(w1, id, target)
  ELSE NoLeak(W([w1.o EXCEPT ![id].parentId = NoId], FALSE))

\* updateObject 198-241, target the parent the connection targets share
ReparentTo(w, id, updates, target) ==
  IF /\ IsConnector(w.o[id])
     /\ \/ ("startConnection" \in updates.keys /\ updates.startConnection # NoConn)
        \/ ("endConnection" \in updates.keys /\ updates.endConnection # NoConn)
     /\ w.o[id].parentId # target
  THEN JoinOrLeave(IF w.o[id].parentId # NoId THEN removeFromOldParent(w, id, target)
                   ELSE w,
                   id, target)
  ELSE NoLeak(w)

\* updateObject 194-241: a connector whose connection was set joins or leaves a group.
ReparentConnector(w, id, updates) ==
  IF w.t THEN NoLeak(w) ELSE ReparentTo(w, id, updates, SharedParent(w.o, w.o[id]))

\* updateObject 243-255
UpdateParentBounds(w, id) ==
  IF w.t \/ ~Has(w.o, id) THEN w
  ELSE LET pid == w.o[id].parentId
       IN  IF pid # NoId /\ Has(w.o, pid) /\ w.o[pid].hasChildren
           THEN SetBounds(w, pid, w.o[pid].children)
           ELSE w

\* An assignment in place to an object that state.objects holds shows in every
\* snapshot that holds the same object.
ApplyLeakMap(m, pre, leak) ==
  [k \in DOMAIN m |->
     IF k \in DOMAIN leak /\ k \in DOMAIN pre /\ m[k] = pre[k] THEN leak[k] ELSE m[k]]

Leaked(s, leak) ==
  [s EXCEPT !.objects = ApplyLeakMap(s.objects, s.objects, leak),
            !.past = [i \in DOMAIN s.past |-> ApplyLeakMap(s.past[i], s.objects, leak)],
            !.future = [i \in DOMAIN s.future |->
                          ApplyLeakMap(s.future[i], s.objects, leak)]]

\* updateObject 191-192
FollowConnections(w, newObj) ==
  IF w.t THEN w ELSE W(getUpdatedConnections(newObj, w.o), FALSE)

\* updateObject 138-142, 257: what set() stores
UpdateReturn(s1, w4, leak, saveHistory) ==
  IF w4.t THEN [s |-> s1, threw |-> TRUE, leak |-> leak]
  ELSE [s |-> [HistoryUpdate(s1, saveHistory) EXCEPT !.objects = w4.o],
        threw |-> FALSE, leak |-> leak]

\* updateObject 243-257, w3 the map after the reparenting
UpdateTail(s, id, w3, saveHistory) ==
  UpdateReturn(Leaked(s, w3.leak), UpdateParentBounds(W(w3.o, w3.t), id), w3.leak,
               saveHistory)

\* updateObject 140-257, newObj = { ...obj, ...updates }
UpdateMerged(s, id, updates, saveHistory, obj, newObj) ==
  UpdateTail(s, id,
             ReparentConnector(
               FollowConnections(
                 ResizeGroup(W([s.objects EXCEPT ![id] = newObj], FALSE), obj, newObj,
                             updates),
                 newObj),
               id, updates),
             saveHistory)

\* an update that records history before it looks the object up
updateObjectRecordingFirst(s, id, updates, saveHistory) ==
  IF ~Has(s.objects, id) THEN Result(HistoryUpdate(s, saveHistory), FALSE)
  ELSE UpdateMerged(s, id, updates, saveHistory, s.objects[id],
                    Merge(s.objects[id], updates))

updateObject(s, id, updates, saveHistory) ==
  IF ~Has(s.objects, id) THEN Result(s, FALSE)
  ELSE UpdateMerged(s, id, updates, saveHistory, s.objects[id],
                    Merge(s.objects[id], updates))

\* a bulk update that does not expand through group membership
updateObjectsListed(s, ids, updates, saveHistory) ==
  LET newObjects == [k \in DOMAIN s.objects |->
                       IF k \in Range(ids) THEN Merge(s.objects[k], updates)
                       ELSE s.objects[k]]
  IN  Result([HistoryUpdate(s, saveHistory) EXCEPT !.objects = newObjects], FALSE)

updateObjects(s, ids, updates, saveHistory) ==
  LET allIdsToUpdate == getRecursiveChildrenIds(s.objects, ids, {})
      newObjects == [k \in DOMAIN s.objects |->
                       IF k \in allIdsToUpdate THEN Merge(s.objects[k], updates)
                       ELSE s.objects[k]]
  IN  Result([HistoryUpdate(s, saveHistory) EXCEPT !.objects = newObjects], FALSE)

(***************************************************************************)
(* groupObjects                                                            *)
(***************************************************************************)
\* newObjects[id] = { ...newObjects[id], parentId: gid }
ReparentOne(w1, id, gid) ==
  IF w1.t THEN w1 ELSE W(SetParent(w1.o, id, gid), FALSE)

RECURSIVE ReparentAll(_, _, _)
\* ids.forEach((id) => { removeFromOldParent(newObjects, id, gid);
\*                       newObjects[id] = { ...newObjects[id], parentId: gid } })
ReparentAll(w, ids, gid) ==
  IF ids = <<>> \/ w.t THEN w
  ELSE ReparentAll(ReparentOne(removeFromOldParent(w, Head(ids), gid), Head(ids), gid),
                   Tail(ids), gid)

\* ids.map((id) => state.objects[id]).filter(Boolean)
Lookup(objs, ids) == [i \in DOMAIN SeqKeep(ids, DOMAIN objs) |-> objs[SeqKeep(ids, DOMAIN objs)[i]]]

\* groupObjects 316-328, b the bounds of the merged children
MergeReturn(s, existingGroup, updatedChildren, w, b) ==
  IF w.t \/ b.throws THEN Result(s, TRUE)
  ELSE Result([PushHistory(s) EXCEPT
                 !.objects = Put(w.o, existingGroup.id,
                                 [existingGroup EXCEPT
                                    !.children = updatedChildren, !.hasChildren = TRUE,
                                    !.geometry = IF b.isNull THEN @ ELSE b.box]),
                 !.ui.selectedObjectIds = <<existingGroup.id>>], FALSE)

\* groupObjects 311-316, w the map after the others were reparented
MergeReparented(s, existingGroup, updatedChildren, w) ==
  MergeReturn(s, existingGroup, updatedChildren, w,
              calculateGroupBounds(w.o, updatedChildren))

\* groupObjects 303-329: exactly one of the selected objects is a group
MergeIntoGroup(s, ids, existingGroup) ==
  MergeReparented(s, existingGroup,
                  Dedup(existingGroup.children \o SeqWithout(ids, existingGroup.id)),
                  ReparentAll(W(s.objects, FALSE), SeqWithout(ids, existingGroup.id),
                              existingGroup.id))

\* a new group that is made a child of its first member
NewGroupInside(groupId, ids, objectsToGroup, b) ==
  [Obj(groupId, "group", b.box) EXCEPT
     !.hasChildren = TRUE, !.children = ids, !.parentId = ids[1]]

\* groupObjects 335-343: the new group object.  Its appearFrame is
\* Math.min(...objectsToGroup.map((o) => o.appearFrame)): undefined and NaN give
\* NaN, null counts as 0.
NewGroup(groupId, ids, objectsToGroup, b) ==
  LET fs == {objectsToGroup[i].appearFrame : i \in DOMAIN objectsToGroup}
      ns == {IF f = FrameNull THEN 0 ELSE f : f \in fs}
  IN  [Obj(groupId, "group", b.box) EXCEPT
         !.hasChildren = TRUE, !.children = ids,
         !.appearFrame = IF FrameUndefined \in fs \/ FrameNaN \in fs THEN FrameNaN
                         ELSE CHOOSE f \in ns : \A g \in ns : f <= g]

\* groupObjects 332-356, w the map after the members were reparented
CreateReturn(s, groupId, b, w) ==
  IF b.throws THEN Result(s, TRUE)
  ELSE IF b.isNull THEN Result(s, FALSE)
  ELSE IF w.t THEN Result([s EXCEPT !.nextId = groupId + 1], TRUE)
  ELSE Result([PushHistory(s) EXCEPT
                 !.objects = w.o, !.nextId = groupId + 1,
                 !.ui.selectedObjectIds = <<groupId>>], FALSE)

\* groupObjects 335-349, b the bounds of the members
CreateBounded(s, ids, objectsToGroup, b) ==
  CreateReturn(s, s.nextId, b,
               ReparentAll(W(Put(s.objects, s.nextId,
                                 NewGroup(s.nextId, ids, objectsToGroup, b)), FALSE),
                           ids, s.nextId))

\* a grouping that accepts a single id
GroupSelectedOfAny(s, ids, objectsToGroup, existingGroups) ==
  IF Len(objectsToGroup) = 0 THEN Result(s, FALSE)
  ELSE IF Len(existingGroups) = 1 THEN MergeIntoGroup(s, ids, existingGroups[1])
  ELSE CreateBounded(s, ids, objectsToGroup, calculateGroupBounds(s.objects, ids))

\* groupObjects 300-331: merge into the one group selected, or make a new group
GroupSelected(s, ids, objectsToGroup, existingGroups) ==
  IF Len(ids) < 2 \/ Len(objectsToGroup) = 0 THEN Result(s, FALSE)
  ELSE IF Len(existingGroups) = 1 THEN MergeIntoGroup(s, ids, existingGroups[1])
  ELSE CreateBounded(s, ids, objectsToGroup, calculateGroupBounds(s.objects, ids))

groupObjects(s, ids) ==
  GroupSelected(s, ids, Lookup(s.objects, ids),
                SelectSeq(Lookup(s.objects, ids), LAMBDA o : o.type = "group"))

RECURSIVE ClearParents(_, _)
ClearParents(objs, childrenIds) ==
  IF childrenIds = <<>> THEN objs
  ELSE ClearParents(IF Has(objs, Head(childrenIds))
                    THEN [objs EXCEPT ![Head(childrenIds)].parentId = NoId]
                    ELSE objs,
                    Tail(childrenIds))

ungroupObjects(s, groupId) ==
  IF ~Has(s.objects, groupId) \/ s.objects[groupId].type # "group"
     \/ ~s.objects[groupId].hasChildren
  THEN Result(s, FALSE)
  ELSE LET childrenIds == s.objects[groupId].children
       IN  Result([PushHistory(s) EXCEPT
                     !.objects = Del(ClearParents(s.objects, childrenIds), groupId),
                     !.ui.selectedObjectIds = childrenIds], FALSE)

(***************************************************************************)
(* deleteObjects, removeObjectFromGroup                                    *)
(***************************************************************************)
\* An arrow stays in group gid only while both its connection targets have
\* parentId gid (deleteObjects 410-417, removeObjectFromGroup 579-586).
ArrowLeaves(objs, arrow, gid) ==
  LET startId == arrow.startConnection.objectId
      endId == arrow.endConnection.objectId
      startParent == IF startId # NoId /\ Has(objs, startId) THEN objs[startId].parentId
                     ELSE NoId
      endParent == IF endId # NoId /\ Has(objs, endId) THEN objs[endId].parentId
                   ELSE NoId
  IN  startParent # gid \/ endParent # gid

RECURSIVE EvictArrows(_, _, _)
\* acc = [o |-> newObjects, kept |-> updatedChildren]
EvictArrows(acc, arrows, gid) ==
  IF arrows = <<>> THEN acc
  ELSE LET aid == Head(arrows)
       IN  EvictArrows(
             IF ArrowLeaves(acc.o, acc.o[aid], gid)
             THEN [o |-> [acc.o EXCEPT ![aid].parentId = NoId],
                   kept |-> SeqWithout(acc.kept, aid)]
             ELSE acc,
             Tail(arrows), gid)

\* the children that are arrows or lines
ArrowsAmong(objs, childrenIds) ==
  SelectSeq(childrenIds, LAMBDA cid : Has(objs, cid) /\ IsConnector(objs[cid]))

\* deleteObjects 419-428: the group is deleted or re-bounded
CleanupBounded(obj, id, ev, b) ==
  IF Len(ev.kept) = 0 THEN W(Del(ev.o, id), FALSE)
  ELSE IF b.throws THEN W(ev.o, TRUE)
  ELSE W([ev.o EXCEPT ![id] = [obj EXCEPT
            !.children = ev.kept,
            !.geometry = IF b.isNull THEN @ ELSE b.box]], FALSE)

\* deleteObjects 403-428, updatedChildren = obj.children.filter((cid) => newObjects[cid])
CleanupChildren(w, id, updatedChildren) ==
  LET ev == EvictArrows([o |-> w.o, kept |-> updatedChildren],
                        ArrowsAmong(w.o, updatedChildren), id)
  IN  CleanupBounded(w.o[id], id, ev, calculateGroupBounds(ev.o, ev.kept))

\* deleteObjects 400-433: the cleanup of one key
CleanupGroup(w, id) ==
  IF w.o[id].type = "group" /\ w.o[id].hasChildren
  THEN CleanupChildren(w, id, SeqKeep(w.o[id].children, DOMAIN w.o))
  ELSE w

RECURSIVE CleanupGroups(_, _)
CleanupGroups(w, keys) ==
  IF keys = <<>> \/ w.t THEN w
  ELSE CleanupGroups(CleanupGroup(w, Head(keys)), Tail(keys))

\* deleteObjects 436-447: what set() stores
DeleteReturn(s, idsToDelete, w) ==
  IF w.t THEN Result(s, TRUE)
  ELSE Result([PushHistory(s) EXCEPT
                 !.objects = w.o,
                 !.ui.selectedObjectIds =
                    SeqKeep(s.ui.selectedObjectIds,
                            Range(s.ui.selectedObjectIds) \ idsToDelete),
                 !.ui.editingObjectId =
                    IF s.ui.editingObjectId \in idsToDelete THEN NoId
                    ELSE s.ui.editingObjectId], FALSE)

\* deleteObjects 394-434, o0 the map without the ids deleted
DeleteCleanup(s, idsToDelete, o0) ==
  DeleteReturn(s, idsToDelete, CleanupGroups(W(o0, FALSE), SortedSeq(DOMAIN o0)))

\* deleteObjects 391-434
DeleteClosure(s, idsToDelete) ==
  DeleteCleanup(s, idsToDelete,
                [k \in (DOMAIN s.objects) \ idsToDelete |-> s.objects[k]])

deleteObjects(s, ids) == DeleteClosure(s, getRecursiveChildrenIds(s.objects, ids, {}))

\* removeObjectFromGroup 592-618, newObjects the map with the group updated
RemoveReturn(s, groupId, newObjects) ==
  Result([PushHistory(s) EXCEPT
            !.objects = newObjects,
            !.ui.selectedObjectIds =
               IF Has(newObjects, groupId) THEN s.ui.selectedObjectIds
               ELSE SeqWithout(s.ui.selectedObjectIds, groupId)], FALSE)

\* removeObjectFromGroup 592-606, b the bounds of the children kept
RemoveBounded(s, groupId, ev, b) ==
  IF Len(ev.kept) = 0 THEN RemoveReturn(s, groupId, Del(ev.o, groupId))
  ELSE IF b.throws THEN Result(s, TRUE)
  ELSE RemoveReturn(s, groupId,
                    Put(ev.o, groupId,
                        [s.objects[groupId] EXCEPT
                           !.children = ev.kept,
                           !.geometry = IF b.isNull THEN @ ELSE b.box]))

\* removeObjectFromGroup 574-606, ev the map and the children after the eviction
RemoveEvicted(s, groupId, ev) ==
  RemoveBounded(s, groupId, ev, calculateGroupBounds(ev.o, ev.kept))

\* removeObjectFromGroup 566-606, o0 the map with the child detached
RemoveChild(s, groupId, newChildren, o0) ==
  RemoveEvicted(s, groupId,
                EvictArrows([o |-> o0, kept |-> newChildren],
                            ArrowsAmong(o0, newChildren), groupId))

removeObjectFromGroup(s, groupId, childId) ==
  IF \/ ~Has(s.objects, groupId) \/ ~Has(s.objects, childId)
     \/ s.objects[groupId].type # "group" \/ ~s.objects[groupId].hasChildren
  THEN Result(s, FALSE)
  ELSE RemoveChild(s, groupId, SeqWithout(s.objects[groupId].children, childId),
                   [s.objects EXCEPT ![childId].parentId = NoId])

\* frameSlice: setFrame
\* a frame setter that stores the frame as given
setFrameAsGiven(s, frame) == [s EXCEPT !.currentFrame = frame]

setFrame(s, frame) == [s EXCEPT !.currentFrame = IF frame < 0 THEN 0 ELSE frame]

\* loadedState = [objects, currentFrame], currentFrame = FrameUndefined when the
\* file holds none.
loadFromObject(s, loadedState) ==
  LET s1 == [s EXCEPT !.objects = loadedState.objects,
                      !.ui.editingObjectId = NoId,
                      !.ui.selectedObjectIds = <<>>]
  IN  Result(IF loadedState.currentFrame # FrameUndefined
             THEN setFrame(s1, loadedState.currentFrame) ELSE s1, FALSE)

\* recalculateGroupBounds 627-635
RecalculateReturn(s, w) ==
  IF w.t THEN Result(s, TRUE) ELSE Result([s EXCEPT !.objects = w.o], FALSE)

recalculateGroupBounds(s, groupId) ==
  IF \/ ~Has(s.objects, groupId)
     \/ s.objects[groupId].type # "group" \/ ~s.objects[groupId].hasChildren
  THEN Result(s, FALSE)
  ELSE RecalculateReturn(s, SetBounds(W(s.objects, FALSE), groupId,
                                      s.objects[groupId].children))

(***************************************************************************)
(* moveObjects                                                             *)
(***************************************************************************)
RECURSIVE collectIds(_, _, _)
\* idsToMove as the ordered set Array.from(idsToMove) reads
collectIds(objs, ids, idsToMove) ==
  IF ids = <<>> THEN idsToMove
  ELSE LET id == Head(ids)
       IN  IF Contains(idsToMove, id) THEN collectIds(objs, Tail(ids), idsToMove)
           ELSE LET c1 == Append(idsToMove, id)
                    c2 == IF Has(objs, id) /\ objs[id].hasChildren
                          THEN collectIds(objs, objs[id].children, c1)
                          ELSE c1
                IN  collectIds(objs, Tail(ids), c2)

RECURSIVE MovePoints(_, _, _)
MovePoints(pts, dx, dy) ==
  IF pts = <<>> THEN <<>>
  ELSE <<Pt(RAdd(Head(pts)[1], dx), RAdd(Head(pts)[2], dy))>> \o MovePoints(Tail(pts), dx, dy)

\* moveObjects 470-495: one moved object
MoveOne(obj, dx, dy) ==
  IF IsConnector(obj) /\ obj.geometry.hasPoints
  THEN [obj EXCEPT !.geometry.points = MovePoints(obj.geometry.points, dx, dy),
                   !.startConnection = NoConn, !.endConnection = NoConn]
  ELSE [obj EXCEPT !.geometry.x = RAdd(obj.geometry.x, dx),
                   !.geometry.y = RAdd(obj.geometry.y, dy)]

RECURSIVE FirstPass(_, _, _, _)
FirstPass(w, movedIds, dx, dy) ==
  IF movedIds = <<>> \/ w.t THEN w
  ELSE LET id == Head(movedIds)
           w1 == IF ~Has(w.o, id) THEN w
                 ELSE IF ~IsConnector(w.o[id]) /\ ~w.o[id].hasGeometry THEN W(w.o, TRUE)
                 ELSE W([w.o EXCEPT ![id] = MoveOne(@, dx, dy)], FALSE)
       IN  FirstPass(w1, Tail(movedIds), dx, dy)

\* moveObjects 501-524: a connector that was not moved follows its moved targets
FollowMove(other, movedIds, dx, dy) ==
  LET p0 == other.geometry.points
      startMoved == other.startConnection # NoConn
                    /\ Contains(movedIds, other.startConnection.objectId)
      endMoved == other.endConnection # NoConn
                  /\ Contains(movedIds, other.endConnection.objectId)
      p1 == IF startMoved THEN [p0 EXCEPT ![1] = Pt(RAdd(p0[1][1], dx), RAdd(p0[1][2], dy))]
            ELSE p0
      p2 == IF endMoved
            THEN [p1 EXCEPT ![Len(p1)] = Pt(RAdd(p1[Len(p1)][1], dx), RAdd(p1[Len(p1)][2], dy))]
            ELSE p1
  IN  IF startMoved \/ endMoved
      THEN [other EXCEPT !.geometry.points = p2, !.geometry.hasPoints = TRUE]
      ELSE other

\* points[0].x of an empty array is a TypeError
FollowThrows(other, movedIds) ==
  /\ other.geometry.points = <<>>
  /\ \/ other.startConnection # NoConn /\ Contains(movedIds, other.startConnection.objectId)
     \/ other.endConnection # NoConn /\ Contains(movedIds, other.endConnection.objectId)

SecondPass(w, movedIds, dx, dy) ==
  LET others == {k \in DOMAIN w.o : ~Contains(movedIds, k) /\ IsConnector(w.o[k])}
  IN  IF w.t THEN w
      ELSE IF \E k \in others : FollowThrows(w.o[k], movedIds) THEN W(w.o, TRUE)
      ELSE W([k \in DOMAIN w.o |->
                IF k \in others THEN FollowMove(w.o[k], movedIds, dx, dy) ELSE w.o[k]],
             FALSE)

\* the parentId of every moved object, in the order a Set keeps them
ParentsOfMoved(objs, movedIds) ==
  Dedup(SelectSeq([i \in DOMAIN movedIds |->
                     IF Has(objs, movedIds[i]) THEN objs[movedIds[i]].parentId ELSE NoId],
                  LAMBDA pid : pid # NoId))

RECURSIVE UpdateParents(_, _)
UpdateParents(w, parentIds) ==
  IF parentIds = <<>> \/ w.t THEN w
  ELSE LET pid == Head(parentIds)
       IN  UpdateParents(IF Has(w.o, pid) /\ w.o[pid].hasChildren
                         THEN SetBounds(w, pid, w.o[pid].children)
                         ELSE w,
                         Tail(parentIds))

\* moveObjects 549-556: what set() stores
MoveReturn(s, w3, saveHistory) ==
  IF w3.t THEN Result(s, TRUE)
  ELSE Result([HistoryUpdate(s, saveHistory) EXCEPT !.objects = w3.o], FALSE)

\* moveObjects 527-547
MoveParents(w2, movedIds) == UpdateParents(w2, ParentsOfMoved(w2.o, movedIds))

\* moveObjects 467-556, movedIds = Array.from(idsToMove)
MoveCollected(s, movedIds, dx, dy, saveHistory) ==
  MoveReturn(s,
             MoveParents(SecondPass(FirstPass(W(s.objects, FALSE), movedIds, dx, dy),
                                    movedIds, dx, dy),
                         movedIds),
             saveHistory)

moveObjects(s, ids, dx, dy, saveHistory) ==
  MoveCollected(s, collectIds(s.objects, ids, <<>>), dx, dy, saveHistory)

(***************************************************************************)
(* historySlice                                                            *)
(***************************************************************************)
\* An undo that forgets the map it leaves.
undoForgetting(s) ==
  IF Len(s.past) = 0 THEN Result(s, FALSE)
  ELSE Result([s EXCEPT !.past = SubSeq(s.past, 1, Len(s.past) - 1),
                        !.objects = s.past[Len(s.past)]], FALSE)

\* A redo that forgets the map it leaves.
redoForgetting(s) ==
  IF Len(s.future) = 0 THEN Result(s, FALSE)
  ELSE Result([s EXCEPT !.future = Tail(s.future), !.objects = s.future[1]], FALSE)

undo(s) ==
  IF Len(s.past) = 0 THEN Result(s, FALSE)
  ELSE LET previous == s.past[Len(s.past)]
           newPast == SubSeq(s.past, 1, Len(s.past) - 1)
       IN  Result([s EXCEPT !.past = newPast,
                            !.future = <<s.objects>> \o s.future,
                            !.objects = previous], FALSE)

redo(s) ==
  IF Len(s.future) = 0 THEN Result(s, FALSE)
  ELSE LET next == s.future[1]
           newFuture == Tail(s.future)
       IN  Result([s EXCEPT !.past = Append(s.past, s.objects),
                            !.future = newFuture,
                            !.objects = next], FALSE)

saveHistory(s) == Result(PushHistory(s), FALSE)

(***************************************************************************)
(* clipboardSlice                                                          *)
(***************************************************************************)
\* JSON.parse(JSON.stringify(obj)): a new object that shares nothing with obj.
\* Fields that are undefined are left out, finite numbers and strings are kept,
\* NaN comes back as null.
JsonClone(obj) ==
  [id |-> obj.id, type |-> obj.type, parentId |-> obj.parentId,
   hasChildren |-> obj.hasChildren, children |-> obj.children,
   hasGeometry |-> obj.hasGeometry, geometry |-> obj.geometry, text |-> obj.text,
   appearFrame |-> IF obj.appearFrame = FrameNaN THEN FrameNull ELSE obj.appearFrame,
   startConnection |-> obj.startConnection, endConnection |-> obj.endConnection]

copy(s) ==
  IF s.ui.editingObjectId # NoId THEN Result(s, FALSE)
  ELSE LET objectsToCopy == Lookup(s.objects, s.ui.selectedObjectIds)
       IN  Result([s EXCEPT !.clipboard =
                     [i \in DOMAIN objectsToCopy |-> JsonClone(objectsToCopy[i])]], FALSE)

PASTE_OFFSET == 20

\* idMap after the first loop: the i-th object gets the id base + i - 1, and a
\* later object with the same id overwrites the entry
IdMap(objs, base) ==
  [k \in {objs[i].id : i \in DOMAIN objs} |->
     LET i == CHOOSE i \in DOMAIN objs :
                /\ objs[i].id = k
                /\ \A j \in DOMAIN objs : objs[j].id = k => j <= i
     IN  base + i - 1]

\* an offset of x and y that leaves the points of a connector where they are
OffsetOfCorner(obj) ==
  IF obj.hasGeometry
  THEN [obj EXCEPT
          !.geometry.x = RAdd(ROr(@, R(0)), R(PASTE_OFFSET)),
          !.geometry.y = RAdd(ROr(@, R(0)), R(PASTE_OFFSET))]
  ELSE obj

\* paste 60-71
Offset(obj) ==
  IF obj.hasGeometry
  THEN [obj EXCEPT
          !.geometry.x = RAdd(ROr(@, R(0)), R(PASTE_OFFSET)),
          !.geometry.y = RAdd(ROr(@, R(0)), R(PASTE_OFFSET)),
          !.geometry.points =
             IF obj.geometry.hasPoints
             THEN MovePoints(@, R(PASTE_OFFSET), R(PASTE_OFFSET)) ELSE @]
  ELSE obj

\* a connection to an object outside the copied set left as it was
RemapConnKeeping(conn, idMap) ==
  IF conn # NoConn /\ conn.objectId \in DOMAIN idMap
  THEN [conn EXCEPT !.objectId = idMap[conn.objectId]]
  ELSE conn

RemapConn(conn, idMap) ==
  IF conn # NoConn /\ conn.objectId \in DOMAIN idMap
  THEN [conn EXCEPT !.objectId = idMap[conn.objectId]]
  ELSE NoConn

RECURSIVE RemapChildren(_, _)
\* children.map((cid) => idMap.get(cid)).filter(Boolean)
RemapChildren(children, idMap) ==
  IF children = <<>> THEN <<>>
  ELSE (IF Head(children) \in DOMAIN idMap THEN <<idMap[Head(children)]>> ELSE <<>>)
       \o RemapChildren(Tail(children), idMap)

\* paste 73-94, duplicate 131-152: resolve the references of a clone
Remap(newObj, idMap) ==
  [newObj EXCEPT
     !.id = idMap[newObj.id],
     !.parentId = IF @ # NoId /\ @ \in DOMAIN idMap THEN idMap[@] ELSE NoId,
     !.children = IF newObj.hasChildren THEN RemapChildren(@, idMap) ELSE @,
     !.startConnection = RemapConn(@, idMap),
     !.endConnection = RemapConn(@, idMap)]

RECURSIVE PutClones(_, _, _, _)
\* the second loop: newObjects[newId] = newObj for every source object
PutClones(newObjects, sources, idMap, offset) ==
  IF sources = <<>> THEN newObjects
  ELSE LET clone == JsonClone(Head(sources))
           newObj == Remap(IF offset THEN Offset(clone) ELSE clone, idMap)
       IN  PutClones(Put(newObjects, newObj.id, newObj), Tail(sources), idMap, offset)

\* { ...state.objects, ...newObjects }
Spread(objs, newObjects) ==
  [k \in (DOMAIN objs) \cup (DOMAIN newObjects) |->
     IF k \in DOMAIN newObjects THEN newObjects[k] ELSE objs[k]]

\* the common end of paste and duplicate
InsertClones(s, sources, offset) ==
  LET idMap == IdMap(sources, s.nextId)
      newObjects == PutClones(EmptyMap, sources, idMap, offset)
  IN  [PushHistory(s) EXCEPT
         !.objects = Spread(s.objects, newObjects),
         !.nextId = s.nextId + Len(sources),
         !.ui.selectedObjectIds = [i \in DOMAIN sources |-> s.nextId + i - 1]]

\* a paste that does not look at the text editor
pasteWhileEditing(s) ==
  IF Len(s.clipboard) = 0 THEN Result(s, FALSE)
  ELSE Result(InsertClones(s, s.clipboard, TRUE), FALSE)

paste(s) ==
  IF Len(s.clipboard) = 0 \/ s.ui.editingObjectId # NoId THEN Result(s, FALSE)
  ELSE Result(InsertClones(s, s.clipboard, TRUE), FALSE)

\* a duplicate that offsets its copies as paste does
duplicateWithOffset(s) ==
  IF s.ui.editingObjectId # NoId \/ Len(s.ui.selectedObjectIds) = 0 THEN Result(s, FALSE)
  ELSE Result(InsertClones(s, Lookup(s.objects, s.ui.selectedObjectIds), TRUE), FALSE)

duplicate(s) ==
  IF s.ui.editingObjectId # NoId \/ Len(s.ui.selectedObjectIds) = 0 THEN Result(s, FALSE)
  ELSE Result(InsertClones(s, Lookup(s.objects, s.ui.selectedObjectIds), FALSE), FALSE)

(***************************************************************************)
(* uiSlice                                                                 *)
(***************************************************************************)
selectObjects(s, ids) == Result([s EXCEPT !.ui.selectedObjectIds = ids], FALSE)
setEditingObject(s, id) == Result([s EXCEPT !.ui.editingObjectId = id], FALSE)

(***************************************************************************)
(* The arguments the handlers are called with.                             *)
(***************************************************************************)
\* An id no object ever has: a stale id.
StaleId == MaxId + 1

\* The shape drawn in slot id of the canvas.
ShapeSpec(type, id) ==
  Obj(NoId, type, Rect(R(150 * (id - 1)), R(20 * id), R(100), R(60)))

FreeEnd == Pt(R(60), R(340))

\* The end of a connector drawn to a connection: the anchor it snaps to.
SnapPoint(objs, conn, free) ==
  IF conn # NoConn /\ Has(objs, conn.objectId) /\ objs[conn.objectId].hasGeometry
  THEN getAnchorPos(objs[conn.objectId], conn.anchorId)
  ELSE free

ArrowSpec(objs, sc, ec) ==
  [Obj(NoId, "arrow", NoGeometry) EXCEPT
     !.geometry.hasPoints = TRUE,
     !.geometry.points = <<SnapPoint(objs, sc, Pt(R(10), R(300))),
                           SnapPoint(objs, ec, FreeEnd)>>,
     !.startConnection = sc, !.endConnection = ec]

\* The objects a connector is bound to in the calls of the model.
ConnTargets(objs) == {k \in DOMAIN objs : objs[k].type \in {"rectangle", "text"}}

\* Pairs of connections: none, a bound start, or a start and an end bound to
\* the next target.
ConnChoices(objs) ==
  LET T == ConnTargets(objs)
  IN  {<<NoConn, NoConn>>}
      \cup {<<Conn(a, "e"), NoConn>> : a \in T}
      \cup {<<Conn(p[1], "s"), Conn(p[2], "w")>> :
              p \in {q \in T \X T : q[1] < q[2] /\ \A c \in T : ~(q[1] < c /\ c < q[2])}}

NoUpdates ==
  [keys |-> {}, geometry |-> NoGeometry, startConnection |-> NoConn,
   endConnection |-> NoConn, text |-> "", appearFrame |-> 0]

\* { geometry: { ...geometry, x: x + 50 } }
ShiftUpdate(obj) ==
  [NoUpdates EXCEPT !.keys = {"geometry"},
                    !.geometry = [obj.geometry EXCEPT !.x = RAdd(@, R(50))]]

\* a group dragged by its resize handle to twice its width and 3/2 its height
ResizeUpdate(obj) ==
  [NoUpdates EXCEPT !.keys = {"geometry"},
                    !.geometry = [obj.geometry EXCEPT
                                    !.x = RAdd(@, R(30)),
                                    !.width = RMul(@, R(2)),
                                    !.height = RMul(@, <<3, 2>>)]]

\* the end point of a connector dragged onto an anchor of target, or off it
EndDragUpdate(objs, obj, ec) ==
  [NoUpdates EXCEPT
     !.keys = {"geometry", "startConnection", "endConnection"},
     !.geometry = [obj.geometry EXCEPT
                     !.points = SetLast(@, SnapPoint(objs, ec, FreeEnd))],
     !.startConnection = obj.startConnection,
     !.endConnection = ec]

TextUpdate == [NoUpdates EXCEPT !.keys = {"text"}, !.text = "t"]

UpdateChoices(objs, id) ==
  IF ~Has(objs, id) THEN {TextUpdate}
  ELSE IF IsConnector(objs[id])
       THEN {EndDragUpdate(objs, objs[id], ec) :
               ec \in {NoConn} \cup {Conn(b, "w") : b \in ConnTargets(objs)}}
            \cup {[NoUpdates EXCEPT !.keys = {"endConnection"}]}
       ELSE IF objs[id].type = "group"
            THEN {ShiftUpdate(objs[id]), ResizeUpdate(objs[id])}
            ELSE IF objs[id].hasGeometry THEN {ShiftUpdate(objs[id]), TextUpdate}
                 ELSE {TextUpdate}

Singles(objs) == {<<k>> : k \in DOMAIN objs}
Pairs(objs) == {p \in (DOMAIN objs) \X (DOMAIN objs) : p[1] < p[2]}

\* the id lists of the bulk calls: one object, or the selection
IdLists(s) == Singles(s.objects) \cup {s.ui.selectedObjectIds} \cup {<<StaleId>>}

Groups(objs) == {k \in DOMAIN objs : objs[k].type = "group"}

(***************************************************************************)
(* The state machine.                                                      *)
(***************************************************************************)
EmptyStore ==
  [objects |-> EmptyMap, past |-> <<>>, future |-> <<>>, clipboard |-> <<>>,
   ui |-> [selectedObjectIds |-> <<>>, editingObjectId |-> NoId],
   currentFrame |-> 0, nextId |-> 1]

\* The copies a paste() call makes, each mapped to the object it copies.
PasteOrigin(s) ==
  IF Len(s.clipboard) = 0 \/ s.ui.editingObjectId # NoId THEN EmptyMap
  ELSE [k \in {s.nextId + i - 1 : i \in DOMAIN s.clipboard} |->
          s.clipboard[k - s.nextId + 1].id]

(***************************************************************************)
(* The canvases the exploration starts from.  Each is the store after a    *)
(* script of calls, replayed from the empty store by the handlers.         *)
(***************************************************************************)
Key(op) == [op |-> op, type |-> "", ids |-> <<>>, sc |-> NoConn, ec |-> NoConn]
AddShape(type) == [Key("addShape") EXCEPT !.type = type]
AddArrow(sc, ec) == [Key("addArrow") EXCEPT !.sc = sc, !.ec = ec]
Select(ids) == [Key("selectObjects") EXCEPT !.ids = ids]
Group(ids) == [Key("groupObjects") EXCEPT !.ids = ids]

\* One call of a script; st = [s |-> the store, origin |-> the copies pasted].
\* Ctrl+G, Ctrl+C, Ctrl+V and Ctrl+Z read the store as it is.
Replay1(st, call) ==
  CASE call.op = "addShape" ->
         [st EXCEPT !.s = addObject(@, ShapeSpec(call.type, @.nextId)).s]
    [] call.op = "addArrow" ->
         [st EXCEPT !.s = addObject(@, ArrowSpec(@.objects, call.sc, call.ec)).s]
    [] call.op = "selectObjects" -> [st EXCEPT !.s = selectObjects(@, call.ids).s]
    [] call.op = "groupObjects" -> [st EXCEPT !.s = groupObjects(@, call.ids).s]
    [] call.op = "groupSelection" ->
         [st EXCEPT !.s = groupObjects(@, @.ui.selectedObjectIds).s]
    [] call.op = "copy" -> [st EXCEPT !.s = copy(@).s]
    [] call.op = "paste" ->
         [st EXCEPT !.s = paste(@).s, !.origin = Spread(@, PasteOrigin(st.s))]
    [] call.op = "duplicate" -> [st EXCEPT !.s = duplicate(@).s]
    [] call.op = "deleteObjects" -> [st EXCEPT !.s = deleteObjects(@, call.ids).s]
    [] call.op = "undo" -> [st EXCEPT !.s = undo(@).s]

RECURSIVE Replay(_, _)
Replay(st, calls) ==
  IF calls = <<>> THEN st ELSE Replay(Replay1(st, Head(calls)), Tail(calls))

\* two bound rectangles, a text with a bound arrow
SceneShapes ==
  <<AddShape("rectangle"), AddShape("rectangle"), AddShape("text"),
    AddArrow(Conn(1, "s"), Conn(2, "w")), AddArrow(Conn(3, "e"), NoConn)>>

\* a group of two rectangles, an arrow between them that joined the group, an
\* arrow that starts at a member and ends free
SceneGroup ==
  <<AddShape("rectangle"), AddShape("rectangle"), Group(<<1, 2>>),
    AddArrow(Conn(1, "s"), Conn(2, "w")), AddArrow(Conn(1, "e"), NoConn)>>

\* two groups of two rectangles, grouped into an outer group
SceneNested ==
  <<AddShape("rectangle"), AddShape("rectangle"), Group(<<1, 2>>),
    AddShape("rectangle"), AddShape("rectangle"), Group(<<4, 5>>), Group(<<3, 6>>)>>

\* the group of SceneGroup selected alone, copied and pasted
ScenePasted == SceneGroup \o <<Select(<<3>>), Key("copy"), Key("paste")>>

\* a group, then two rectangles selected, the second add undone and the stale
\* selection grouped
SceneStale ==
  <<AddShape("rectangle"), AddShape("rectangle"), Group(<<1, 2>>),
    AddShape("rectangle"), AddShape("rectangle"), Select(<<4, 5>>), Key("undo"),
    Key("groupSelection")>>

\* three rectangles selected, the third add undone and the stale selection
\* grouped: a group of two rectangles and an entry without geometry
SceneStaleMember ==
  <<AddShape("rectangle"), AddShape("rectangle"), AddShape("rectangle"),
    Select(<<1, 2, 3>>), Key("undo"), Key("groupSelection")>>

\* the nested groups selected outer group first with one rectangle, duplicated,
\* and the originals deleted: the copy of the outer group is older than the
\* copy of the inner group
SceneCopiedNest ==
  SceneNested \o <<Select(<<7, 3, 1>>), Key("duplicate"),
                  [Key("deleteObjects") EXCEPT !.ids = <<7>>]>>

Called(op, id, ids, keys, hist) ==
  [op |-> op, id |-> id, ids |-> ids, keys |-> keys, hist |-> hist, threw |-> FALSE]

\* One call of a handler: r is what it returns.
Do(r, call) ==
  /\ nOps < MaxOps
  /\ r.s.nextId <= MaxId + 1
  /\ objects' = r.s.objects
  /\ past' = r.s.past
  /\ future' = r.s.future
  /\ clipboard' = r.s.clipboard
  /\ ui' = r.s.ui
  /\ currentFrame' = r.s.currentFrame
  /\ nextId' = r.s.nextId
  /\ origin' = IF call.op = "paste" THEN Spread(origin, PasteOrigin(Store)) ELSE origin
  /\ last' = [call EXCEPT !.threw = r.threw]
  /\ nOps' = nOps + 1

AddObject ==
  \E spec \in {ShapeSpec("rectangle", nextId), ShapeSpec("text", nextId)}
               \cup {ArrowSpec(objects, c[1], c[2]) : c \in ConnChoices(objects)} :
    Do(addObject(Store, spec), Called("addObject", nextId, <<>>, {}, TRUE))

UpdateObject ==
  \E id \in (DOMAIN objects) \cup {StaleId}, saveHist \in BOOLEAN :
    \E updates \in UpdateChoices(objects, id) :
      Do(updateObject(Store, id, updates, saveHist),
         [op |-> "updateObject", id |-> id, ids |-> <<>>, keys |-> updates.keys,
          hist |-> saveHist, threw |-> FALSE, updates |-> updates])

\* the partial objects of a bulk update: a text, or the appearFrame the frame
\* input of the overlay sets
UpdateObjects ==
  \E ids \in IdLists(Store), saveHist \in BOOLEAN :
    \E updates \in {TextUpdate,
                    [NoUpdates EXCEPT !.keys = {"appearFrame"}, !.appearFrame = 2]} :
      Do(updateObjects(Store, ids, updates, saveHist),
         [op |-> "updateObjects", id |-> NoId, ids |-> ids, keys |-> updates.keys,
          hist |-> saveHist, threw |-> FALSE, updates |-> updates])

GroupObjects ==
  \E ids \in Pairs(objects) \cup {ui.selectedObjectIds}
               \cup {<<StaleId>>, <<StaleId, StaleId + 1>>} :
    Do(groupObjects(Store, ids), Called("groupObjects", NoId, ids, {}, TRUE))

UngroupObjects ==
  \E groupId \in Groups(objects) \cup {StaleId} :
    Do(ungroupObjects(Store, groupId), Called("ungroupObjects", groupId, <<>>, {}, TRUE))

DeleteObjects ==
  \E ids \in IdLists(Store) :
    Do(deleteObjects(Store, ids), Called("deleteObjects", NoId, ids, {}, TRUE))

\* the ids of a drag: an id list, two objects, or an object named twice
MoveObjects ==
  \E ids \in IdLists(Store) \cup {<<p[1], p[2]>> : p \in Pairs(objects)}
               \cup {<<k, k>> : k \in DOMAIN objects},
     saveHist \in BOOLEAN :
    Do(moveObjects(Store, ids, R(5), R(-5), saveHist),
       Called("moveObjects", NoId, ids, {}, saveHist))

RemoveObjectFromGroup ==
  \E groupId \in Groups(objects) \cup {StaleId} :
    \E childId \in (IF Has(objects, groupId)
                    THEN Range(objects[groupId].children) \cup ConnTargets(objects)
                    ELSE {StaleId}) :
      Do(removeObjectFromGroup(Store, groupId, childId),
         Called("removeObjectFromGroup", groupId, <<childId>>, {}, TRUE))

RecalculateGroupBounds ==
  \E groupId \in Groups(objects) \cup {StaleId} :
    Do(recalculateGroupBounds(Store, groupId),
       Called("recalculateGroupBounds", groupId, <<>>, {}, FALSE))

\* The files loadFromObject is given: an empty canvas, or the canvas as it was
\* saved one recorded step ago; with or without a frame.
LoadFromObject ==
  \E m \in {EmptyMap} \cup (IF past = <<>> THEN {} ELSE {past[Len(past)]}),
     f \in {FrameUndefined, 3, -5} :
    Do(loadFromObject(Store, [objects |-> m, currentFrame |-> f]),
       [op |-> "loadFromObject", id |-> NoId, ids |-> <<>>, keys |-> {},
        hist |-> FALSE, threw |-> FALSE,
        loaded |-> [objects |-> m, currentFrame |-> f]])

Undo == Do(undo(Store), Called("undo", NoId, <<>>, {}, FALSE))
Redo == Do(redo(Store), Called("redo", NoId, <<>>, {}, FALSE))
SaveHistory == Do(saveHistory(Store), Called("saveHistory", NoId, <<>>, {}, TRUE))

Copy == Do(copy(Store), Called("copy", NoId, <<>>, {}, FALSE))
Paste == Do(paste(Store), Called("paste", NoId, <<>>, {}, TRUE))
Duplicate == Do(duplicate(Store), Called("duplicate", NoId, <<>>, {}, TRUE))

SelectObjects ==
  \E ids \in Singles(objects) \cup Pairs(objects) \cup {<<>>} :
    Do(selectObjects(Store, ids), Called("selectObjects", NoId, ids, {}, FALSE))

SetEditingObject ==
  \E id \in {NoId} \cup {k \in DOMAIN objects : objects[k].type = "text"} :
    Do(setEditingObject(Store, id), Called("setEditingObject", id, <<>>, {}, FALSE))

\* The store after construction, or after one of the scripts (the last two:
\* the last two calls of SceneShapes undone; a rectangle of SceneShapes and
\* the arrow that starts at it copied, then the other rectangle selected).
Init ==
  \E sc \in {Replay([s |-> EmptyStore, origin |-> EmptyMap], script) :
               script \in {<<>>, SceneShapes, SceneGroup, SceneNested, ScenePasted,
                           SceneStale, SceneStaleMember, SceneCopiedNest,
                           SceneShapes \o <<Key("undo"), Key("undo")>>,
                           SceneShapes \o <<Select(<<1, 4>>), Key("copy"), Select(<<2>>)>>}} :
    /\ objects = sc.s.objects
    /\ past = sc.s.past
    /\ future = sc.s.future
    /\ clipboard = sc.s.clipboard
    /\ ui = sc.s.ui
    /\ currentFrame = sc.s.currentFrame
    /\ nextId = sc.s.nextId
    /\ origin = sc.origin
    /\ last = Called("init", NoId, <<>>, {}, FALSE)
    /\ nOps = 0

Next ==
  \/ AddObject
  \/ UpdateObject
  \/ UpdateObjects
  \/ GroupObjects
  \/ UngroupObjects
  \/ DeleteObjects
  \/ MoveObjects
  \/ RemoveObjectFromGroup
  \/ RecalculateGroupBounds
  \/ LoadFromObject
  \/ Undo
  \/ Redo
  \/ SaveHistory
  \/ Copy
  \/ Paste
  \/ Duplicate
  \/ SelectObjects
  \/ SetEditingObject

Spec == Init /\ [][Next]_vars

(***************************************************************************)
(* A drag: saveHistory() on the first event, then moveObjects or           *)
(* updateObject without saveHistory for each event, then undo and redo.    *)
(* last carries the map and the length of past at the start of the drag,   *)
(* the number of calls of the drag and the map at its end.                 *)
(***************************************************************************)
DragNext ==
  LET Apply(r, op, start, len, n, end) ==
        /\ objects' = r.s.objects
        /\ past' = r.s.past
        /\ future' = r.s.future
        /\ clipboard' = r.s.clipboard
        /\ ui' = r.s.ui
        /\ currentFrame' = r.s.currentFrame
        /\ nextId' = r.s.nextId
        /\ origin' = origin
        /\ last' = [op |-> op, threw |-> r.threw, start |-> start, len |-> len,
                    n |-> n, end |-> end]
        /\ nOps' = nOps + 1
      Dragging == last.op \in {"saveHistory", "moveObjects", "updateObject"}
  IN  \/ /\ last.op = "init"
         /\ Apply(saveHistory(Store), "saveHistory", objects, Len(past), 0, objects)
      \/ /\ Dragging /\ last.n < MaxDragCalls
         /\ \E ids \in IdLists(Store) :
              Apply(moveObjects(Store, ids, R(5), R(-5), FALSE), "moveObjects",
                    last.start, last.len, last.n + 1, last.end)
      \/ /\ Dragging /\ last.n < MaxDragCalls
         /\ \E id \in DOMAIN objects :
              \E updates \in UpdateChoices(objects, id) :
                Apply(updateObject(Store, id, updates, FALSE), "updateObject",
                      last.start, last.len, last.n + 1, last.end)
      \/ /\ Dragging
         /\ Apply(undo(Store), "undo", last.start, last.len, last.n, objects)
      \/ /\ last.op = "undo"
         /\ Apply(redo(Store), "redo", last.start, last.len, last.n, last.end)

DragSpec == Init /\ [][DragNext]_vars

(***************************************************************************)
(* The properties checked.  Step is a step that is a call; Touched is the  *)
(* set of ids the call named.                                              *)
(***************************************************************************)
Step == nOps' = nOps + 1
Touched(call) == (IF call.id # NoId THEN {call.id} ELSE {}) \cup Range(call.ids)

RMinOf(S) == CHOOSE x \in S : \A y \in S : RLe(x, y)
RMaxOf(S) == CHOOSE x \in S : \A y \in S : RLe(y, x)

\* The anchor position as the contract states it.
AnchorOf(g, a) ==
  CASE a = "n" -> Pt(RAdd(g.x, RDiv(g.width, R(2))), g.y)
    [] a = "s" -> Pt(RAdd(g.x, RDiv(g.width, R(2))), RAdd(g.y, g.height))
    [] a = "e" -> Pt(RAdd(g.x, g.width), RAdd(g.y, RDiv(g.height, R(2))))
    [] a = "w" -> Pt(g.x, RAdd(g.y, RDiv(g.height, R(2))))

\* Connector c has every end that is bound to shape at the anchor of shape.
Anchored(c, shape) ==
  LET pts == c.geometry.points
  IN  /\ c.startConnection.objectId = shape.id =>
           pts # <<>> /\ pts[1] = AnchorOf(shape.geometry, c.startConnection.anchorId)
      /\ c.endConnection.objectId = shape.id =>
           pts # <<>> /\ pts[Len(pts)] = AnchorOf(shape.geometry, c.endConnection.anchorId)

AreaShapeTypes == {"rectangle", "diamond", "ellipse", "text", "group"}

\* C1: after updateObject(O.id, {geometry}) on an area shape O (rectangle,
\* diamond, ellipse, text or group) every arrow or line whose startConnection
\* names O has its first point at the anchor of O, and every one whose
\* endConnection names O has its last point there.
C1_ConnectorsFollowUpdate ==
  (/\ last.op = "updateObject"
   /\ "geometry" \in last.keys
   /\ Has(objects, last.id)
   /\ objects[last.id].type \in AreaShapeTypes)
  => \A k \in DOMAIN objects :
       IsConnector(objects[k]) => Anchored(objects[k], objects[last.id])

\* The children of group gid that are in the map and have a geometry.
LiveChildren(objs, gid) == {c \in Range(objs[gid].children) : Has(objs, c)}
BoxedChildren(objs, gid) == {c \in LiveChildren(objs, gid) : objs[c].hasGeometry}

ExtentX(o) ==
  IF o.geometry.hasPoints THEN {pt[1] : pt \in Range(o.geometry.points)}
  ELSE {o.geometry.x, RAdd(o.geometry.x, o.geometry.width)}
ExtentY(o) ==
  IF o.geometry.hasPoints THEN {pt[2] : pt \in Range(o.geometry.points)}
  ELSE {o.geometry.y, RAdd(o.geometry.y, o.geometry.height)}

\* The padded union box of a set of objects, as the contract states it.
UnionBox(objs, kids) ==
  LET xs == UNION {ExtentX(objs[c]) : c \in kids}
      ys == UNION {ExtentY(objs[c]) : c \in kids}
  IN  Rect(RSub(RMinOf(xs), R(10)), RSub(RMinOf(ys), R(10)),
           RAdd(RSub(RMaxOf(xs), RMinOf(xs)), R(20)),
           RAdd(RSub(RMaxOf(ys), RMinOf(ys)), R(20)))

RECURSIVE AncestorsOf(_, _, _)
\* the parentId chain of id
AncestorsOf(objs, id, seen) ==
  IF ~Has(objs, id) \/ objs[id].parentId = NoId \/ objs[id].parentId \in seen THEN seen
  ELSE AncestorsOf(objs, objs[id].parentId, seen \cup {objs[id].parentId})

\* ids and every group above one of them
GroupsAbove(objs, ids) == ids \cup UNION {AncestorsOf(objs, id, {}) : id \in ids}

BoundsOps ==
  {"updateObject", "moveObjects", "deleteObjects", "groupObjects",
   "removeObjectFromGroup", "addObject"}

\* C2: after an operation that touches a descendant of a group G (update, move,
\* delete, group, removeFromGroup, create of an auto-joining connector, a change
\* to a descendant in a nested group, a resize of G itself) the geometry of G
\* is the padded union box of the children G then has.
C2_GroupBoundsFollowChildren ==
  [][(Step /\ last'.op \in BoundsOps) =>
       \A gid \in Groups(objects') :
         (/\ gid \in GroupsAbove(objects, Touched(last'))
                     \cup GroupsAbove(objects', Touched(last'))
          /\ BoxedChildren(objects', gid) # {})
         => /\ objects'[gid].hasGeometry
            /\ objects'[gid].geometry = UnionBox(objects', BoxedChildren(objects', gid))]_vars

\* the parentId of the object a connection names, NoId when it names none
TargetParent(objs, conn) ==
  IF conn.objectId # NoId /\ Has(objs, conn.objectId) THEN objs[conn.objectId].parentId
  ELSE NoId

\* C3: in every reachable state an arrow or line has parentId G exactly when
\* both its connections name existing objects whose parentId is G.
C3_ConnectorMembership ==
  \A k \in DOMAIN objects :
    IsConnector(objects[k]) =>
      \A gid \in (Groups(objects) \cup {objects[k].parentId}) \ {NoId} :
        (objects[k].parentId = gid)
        <=> (/\ TargetParent(objects, objects[k].startConnection) = gid
             /\ TargetParent(objects, objects[k].endConnection) = gid)

RECURSIVE ChildClosure(_, _)
\* S and every transitive child of a member of S
ChildClosure(objs, S) ==
  LET T == S \cup UNION {Range(objs[k].children) :
                           k \in {j \in S \cap DOMAIN objs : objs[j].hasChildren}}
  IN  IF T = S THEN S ELSE ChildClosure(objs, T)

\* C4: after deleteObjects(ids) with a group among ids, every transitive
\* descendant of the group is absent from the map and no remaining object has
\* a parentId that names an absent object.
C4_DeleteCascades ==
  [][(/\ Step
      /\ last'.op = "deleteObjects"
      /\ \E id \in Range(last'.ids) : Has(objects, id) /\ objects[id].type = "group")
     => /\ ChildClosure(objects, Range(last'.ids)) \cap DOMAIN objects' = {}
        /\ \A k \in DOMAIN objects' :
             objects'[k].parentId # NoId => Has(objects', objects'[k].parentId)]_vars

RemovalOps == {"deleteObjects", "removeObjectFromGroup", "groupObjects", "updateObject"}

\* C5: a group that loses its last child in the map - by deleteObjects, by
\* removeObjectFromGroup or by the reparenting of its members - is absent
\* afterwards, an outer group whose only child dissolved included.
C5_EmptiedGroupsDissolve ==
  [][(Step /\ last'.op \in RemovalOps) =>
       \A gid \in Groups(objects) \cap Groups(objects') :
         LiveChildren(objects, gid) # {} => LiveChildren(objects', gid) # {}]_vars

RECURSIVE UndoN(_, _)
UndoN(s, n) == IF n = 0 THEN s ELSE UndoN(undo(s).s, n - 1)

RECURSIVE RedoN(_, _)
RedoN(s, n) == IF n = 0 THEN s ELSE RedoN(redo(s).s, n - 1)

\* C6: after N recorded mutations (past holds at least N entries), undo() N
\* times reaches the map before the N-th last mutation, and redo() N times
\* after that gives back objects, past and future exactly.
C6_UndoRedoRoundTrip ==
  \A n \in 1..Len(past) :
    /\ UndoN(Store, n).objects = past[Len(past) - n + 1]
    /\ RedoN(UndoN(Store, n), n).objects = objects
    /\ RedoN(UndoN(Store, n), n).past = past
    /\ RedoN(UndoN(Store, n), n).future = future

\* two recorded mutations in a row, each of which changed the map
C6_Witness ==
  /\ nOps = 2
  /\ last.hist /\ ~last.threw
  /\ Len(past) >= 2
  /\ future = <<>>
  /\ past[Len(past)] # objects
  /\ past[Len(past) - 1] # past[Len(past)]

RecordingOps ==
  {"addObject", "deleteObjects", "groupObjects", "ungroupObjects",
   "removeObjectFromGroup", "paste", "duplicate", "saveHistory", "updateObject",
   "updateObjects", "moveObjects"}

C8_UndoRedoSteps ==
  [][/\ (Step /\ last'.op = "undo") =>
          IF past = <<>> THEN UNCHANGED <<objects, past, future>>
          ELSE /\ objects' = past[Len(past)]
               /\ past' = SubSeq(past, 1, Len(past) - 1)
               /\ future' = <<objects>> \o future
     /\ (Step /\ last'.op = "redo") =>
          IF future = <<>> THEN UNCHANGED <<objects, past, future>>
          ELSE /\ objects' = future[1]
               /\ future' = Tail(future)
               /\ past' = Append(past, objects)
     /\ (Step /\ last'.op \in {"undo", "redo"}) =>
          Len(past') + Len(future') = Len(past) + Len(future)]_vars

\* the first call was an undo with a past to take from
C8_Witness ==
  /\ nOps = 1
  /\ last.op = "undo"
  /\ future # <<>>
  /\ future[1] # objects

\* C9: a map stored in past or future and an object stored in the clipboard are
\* never changed by a later call: a call other than undo and redo leaves past
\* as it is or appends the map before the call, and leaves future as it is or
\* empties it; undo and redo only move the boundary in the sequence of past,
\* the current map and future; only copy changes the clipboard.
C9_StoredSnapshotsKeepTheirContent ==
  [][Step =>
       /\ last'.op \notin {"undo", "redo"} =>
            /\ past' = past \/ past' = Append(past, objects)
            /\ future' = future \/ future' = <<>>
       /\ last'.op \in {"undo", "redo"} =>
            past' \o <<objects'>> \o future' = past \o <<objects>> \o future
       /\ last'.op # "copy" => clipboard' = clipboard]_vars

\* updateObject bound the free end of a connector, the connector joined the
\* group of its targets (the assignment of the new bounds), and the map
\* before the call is the last entry of past
C9_Witness ==
  /\ last.op = "updateObject" /\ last.hist /\ ~last.threw
  /\ "endConnection" \in last.keys
  /\ Has(objects, last.id)
  /\ IsConnector(objects[last.id])
  /\ objects[last.id].parentId # NoId
  /\ past # <<>>
  /\ Has(past[Len(past)], last.id)
  /\ past[Len(past)][last.id].parentId = NoId
  /\ past[Len(past)][objects[last.id].parentId].geometry
       # objects[objects[last.id].parentId].geometry

\* C10: after paste(), an update, move or delete applied to an original leaves
\* its pasted copy as it was, and one applied to a pasted copy leaves the
\* original as it was.  Stated for the call that directly follows the paste,
\* before any other call has had the chance to link copy and original.
C10_CopiesAreIndependent ==
  [][(/\ Step
      /\ nOps = 0 \/ last.op = "paste"
      /\ last'.op \in {"updateObject", "moveObjects", "deleteObjects"}) =>
       \A c \in DOMAIN origin :
         (Has(objects, c) /\ Has(objects, origin[c])) =>
           /\ (origin[c] \in Touched(last') /\ c \notin Touched(last')) =>
                Has(objects', c) /\ objects'[c] = objects[c]
           /\ (c \in Touched(last') /\ origin[c] \notin Touched(last')) =>
                Has(objects', origin[c]) /\ objects'[origin[c]] = objects[origin[c]]]_vars

(***************************************************************************)
(* paste and duplicate                                                     *)
(***************************************************************************)
\* The ids an object refers to: its parent, its children, the objects its
\* two ends are connected to.
References(o) ==
  ({o.parentId, o.startConnection.objectId, o.endConnection.objectId} \ {NoId})
  \cup Range(o.children)

\* C11: every object created by paste() or duplicate() refers, through
\* parentId, children, startConnection and endConnection, only to other objects
\* created by the same call; a reference to an object outside the copied set
\* is dropped, never left naming an original or foreign id.
C11_CopiesReferToCopies ==
  [][Step /\ last'.op \in {"paste", "duplicate"} =>
       LET created == (DOMAIN objects') \ (DOMAIN objects)
       IN  \A k \in created :
             /\ objects'[k].id = k
             /\ References(objects'[k]) \subseteq created \ {k}]_vars

\* a duplicate of a group selected with one of its two members: the copy of
\* the member keeps its parent, the copy of the group lists that one child
C11_Witness ==
  /\ last.op = "duplicate"
  /\ \E g, k \in Range(ui.selectedObjectIds) :
       /\ Has(objects, g) /\ Has(objects, k)
       /\ objects[k].parentId = g
       /\ objects[g].children = <<k>>
       /\ \E h \in DOMAIN objects \ Range(ui.selectedObjectIds) :
            /\ objects[h].type = "group"
            /\ objects[h].geometry = objects[g].geometry
            /\ Len(objects[h].children) > 1

(***************************************************************************)
(* deleteObjects and connectors in groups                                  *)
(***************************************************************************)
\* Object id is a member of group gid: it is in the map with parentId gid.
MemberOf(objs, id, gid) == id # NoId /\ Has(objs, id) /\ objs[id].parentId = gid

\* Connector c, its start shape and its end shape are all children of gid.
BoundInside(objs, c, gid) ==
  /\ IsConnector(objs[c])
  /\ {c, objs[c].startConnection.objectId, objs[c].endConnection.objectId}
       \subseteq Range(objs[gid].children)
  /\ MemberOf(objs, c, gid)
  /\ MemberOf(objs, objs[c].startConnection.objectId, gid)
  /\ MemberOf(objs, objs[c].endConnection.objectId, gid)

\* C12: when connector C, its start shape A and its end shape B are all
\* children of group G, after deleteObjects([A.id]) C is in the map with no
\* parentId, C is not in G.children and G.geometry is the padded union box of
\* the children G has left; and after any delete every connector listed in a
\* group has both ends on members of that group.
C12_DeleteEvictsConnectors ==
  [][(Step /\ last'.op = "deleteObjects") =>
       /\ \A gid \in Groups(objects) : \A c \in Range(objects[gid].children) :
            (/\ Has(objects, c)
             /\ BoundInside(objects, c, gid)
             /\ objects[c].startConnection.objectId # objects[c].endConnection.objectId
             /\ last'.ids = <<objects[c].startConnection.objectId>>)
            => /\ Has(objects', c)
               /\ objects'[c].parentId = NoId
               /\ Has(objects', gid)
               /\ ~Contains(objects'[gid].children, c)
               /\ objects'[gid].geometry = UnionBox(objects', LiveChildren(objects', gid))
       /\ \A gid \in Groups(objects') : \A c \in LiveChildren(objects', gid) :
            IsConnector(objects'[c]) =>
              /\ MemberOf(objects', objects'[c].startConnection.objectId, gid)
              /\ MemberOf(objects', objects'[c].endConnection.objectId, gid)]_vars

(***************************************************************************)
(* moveObjects                                                             *)
(***************************************************************************)
\* The objects moveObjects(ids) moves: ids and every transitive child, as far
\* as they are in the map.
MovedClosure(objs, ids) == ChildClosure(objs, Range(ids)) \cap DOMAIN objs

\* Geometry g is the geometry of o translated by (dx, dy) once: every point of
\* a connector, x and y of any other object.
Translated(g, o, dx, dy) ==
  IF IsConnector(o)
  THEN g.points = [i \in DOMAIN o.geometry.points |->
                     Pt(RAdd(o.geometry.points[i][1], dx), RAdd(o.geometry.points[i][2], dy))]
  ELSE g.x = RAdd(o.geometry.x, dx) /\ g.y = RAdd(o.geometry.y, dy)

\* C13: moveObjects(ids, 5, -5) translates every object of the recursive group
\* closure of ids by exactly (5, -5), once: area shapes in x and y, connectors
\* in every point, also when ids names a group together with a descendant or
\* names an id twice, and when a connector that is a member is bound to a
\* moved sibling.
C13_MoveTranslatesClosureOnce ==
  [][(Step /\ last'.op = "moveObjects") =>
       \A k \in MovedClosure(objects, last'.ids) :
         objects[k].hasGeometry =>
           /\ Has(objects', k)
           /\ Translated(objects'[k].geometry, objects[k], R(5), R(-5))]_vars

\* C14: after moveObjects(ids, dx, dy) every arrow or line of the moved closure
\* has startConnection and endConnection unset, and every arrow or line
\* outside the moved closure has the connections it had.
C14_MoveClearsMovedConnections ==
  [][(Step /\ last'.op = "moveObjects") =>
       \A k \in DOMAIN objects :
         IsConnector(objects[k]) =>
           /\ Has(objects', k)
           /\ IF k \in MovedClosure(objects, last'.ids)
              THEN /\ objects'[k].startConnection = NoConn
                   /\ objects'[k].endConnection = NoConn
              ELSE /\ objects'[k].startConnection = objects[k].startConnection
                   /\ objects'[k].endConnection = objects[k].endConnection]_vars

\* C15: after moveObjects(ids, dx, dy) every arrow or line outside the moved
\* closure whose startConnection names a moved area shape O has its first
\* point, and every one whose endConnection names O its last point, at the
\* anchor of O computed from the geometry O then has.
C15_UnmovedConnectorsFollowMove ==
  [][(Step /\ last'.op = "moveObjects") =>
       \A k \in DOMAIN objects \ MovedClosure(objects, last'.ids) :
         \A o \in MovedClosure(objects, last'.ids) :
           (/\ IsConnector(objects[k])
            /\ objects[o].type \in AreaShapeTypes
            /\ o \in {objects[k].startConnection.objectId,
                      objects[k].endConnection.objectId})
           => /\ Has(objects', k) /\ Has(objects', o)
              /\ Anchored(objects'[k], objects'[o])]_vars

(***************************************************************************)
(* groups: parentId and children                                           *)
(***************************************************************************)
\* The groups of the map that list id among their children.
ListedIn(objs, id) == {g \in Groups(objs) : Contains(objs[g].children, id)}

\* How often id occurs in the list s.
Occurrences(s, id) == Cardinality({i \in DOMAIN s : s[i] = id})

\* C16: parentId is exclusive.  When groupObjects or updateObject moves an
\* object from parent P to parent Q, the object is afterwards absent from
\* P.children, exactly once in Q.children and has parentId Q, and P is deleted
\* if it has no child left and has the padded union box of its remaining
\* children otherwise; in no reachable state is an object listed in the
\* children of two groups.
C16_ParentIsExclusive ==
  [][/\ \A k \in DOMAIN objects : Cardinality(ListedIn(objects, k)) <= 1
     /\ \A k \in DOMAIN objects' : Cardinality(ListedIn(objects', k)) <= 1
     /\ (Step /\ last'.op \in {"groupObjects", "updateObject"}) =>
          \A k \in (DOMAIN objects) \cap (DOMAIN objects') :
            LET p == objects[k].parentId
                q == objects'[k].parentId
            IN  (p # NoId /\ q # NoId /\ p # q /\ Has(objects, p)) =>
                  /\ Has(objects', q)
                  /\ Occurrences(objects'[q].children, k) = 1
                  /\ IF Has(objects', p)
                     THEN /\ ~Contains(objects'[p].children, k)
                          /\ BoxedChildren(objects', p) # {} =>
                               objects'[p].geometry =
                                 UnionBox(objects', BoxedChildren(objects', p))
                     ELSE LiveChildren(objects, p) \cap DOMAIN objects'
                            \subseteq {j \in DOMAIN objects' : objects'[j].parentId # p}]_vars

\* The positions of ids that name a group of the map.
GroupsNamed(objs, ids) ==
  {i \in DOMAIN ids : Has(objs, ids[i]) /\ objs[ids[i]].type = "group"}

\* C17: groupObjects(ids) with at least two ids, exactly one of which names an
\* existing group E, creates no group: afterwards no group has been added,
\* every other id of ids is in E.children with parentId E, the previous
\* children of E are still its children, E.geometry is the padded union box
\* of its children and the selection is [E.id].
C17_GroupMergesIntoTheOneGroup ==
  [][(/\ Step
      /\ last'.op = "groupObjects"
      /\ Len(last'.ids) >= 2
      /\ Cardinality(GroupsNamed(objects, last'.ids)) = 1)
     => LET e == last'.ids[CHOOSE i \in GroupsNamed(objects, last'.ids) : TRUE]
        IN  /\ Groups(objects') \subseteq Groups(objects)
            /\ Has(objects', e)
            /\ \A id \in Range(last'.ids) \ {e} :
                 /\ Contains(objects'[e].children, id)
                 /\ Has(objects', id)
                 /\ objects'[id].parentId = e
            /\ Range(objects[e].children) \subseteq Range(objects'[e].children)
            /\ BoxedChildren(objects', e) # {}
            /\ objects'[e].geometry = UnionBox(objects', BoxedChildren(objects', e))
            /\ ui'.selectedObjectIds = <<e>>]_vars

\* C18: groupObjects(ids) with at least two ids, all in the map, none or at
\* least two of which name groups, adds exactly one group N with a fresh id:
\* its children are ids, its appearFrame is the least appearFrame of the
\* members, its geometry is the padded union box of the members, every member
\* has parentId N and the selection is [N.id].
C18_GroupCreatesOneGroup ==
  [][(/\ Step
      /\ last'.op = "groupObjects"
      /\ Len(last'.ids) >= 2
      /\ Range(last'.ids) \subseteq DOMAIN objects
      /\ Cardinality(GroupsNamed(objects, last'.ids)) # 1)
     => \E n \in (DOMAIN objects') \ (DOMAIN objects) :
          LET members == Range(last'.ids)
              frames == {objects[id].appearFrame : id \in members}
          IN  /\ Groups(objects') \ Groups(objects) = {n}
              /\ objects'[n].children = last'.ids
              /\ (\A f \in frames : f >= 0) =>
                   /\ objects'[n].appearFrame \in frames
                   /\ \A f \in frames : objects'[n].appearFrame <= f
              /\ \A id \in members : Has(objects', id) /\ objects'[id].parentId = n
              /\ objects'[n].geometry =
                   UnionBox(objects', {id \in members : objects'[id].hasGeometry})
              /\ ui'.selectedObjectIds = <<n>>]_vars

\* C19: ungroupObjects(G.id) on a group G of the map removes G, unsets the
\* parentId of every former child and leaves its other fields as they were,
\* makes the former child ids the selection, and leaves no object that refers
\* to G through parentId or children.
C19_UngroupFreesChildren ==
  [][(/\ Step
      /\ last'.op = "ungroupObjects"
      /\ Has(objects, last'.id)
      /\ objects[last'.id].type = "group")
     => LET g == last'.id
        IN  /\ ~Has(objects', g)
            /\ \A c \in LiveChildren(objects, g) :
                 /\ Has(objects', c)
                 /\ objects'[c] = [objects[c] EXCEPT !.parentId = NoId]
            /\ ui'.selectedObjectIds = objects[g].children
            /\ \A k \in DOMAIN objects' :
                 /\ objects'[k].parentId # g
                 /\ ~Contains(objects'[k].children, g)]_vars

\* C20: removeObjectFromGroup(G.id, c) detaches exactly the named child.  For
\* a child c of G: afterwards c has no parentId and is not in G.children, the
\* other children that are not connectors stay, every connector child whose
\* two ends are not both on members of G has left G with parentId unset, G is
\* deleted if no child remains and has the padded union box of the children
\* kept otherwise.  For a c that is not a child of G the call changes neither
\* the parentId of c nor any group.
C20_RemoveDetachesTheNamedChild ==
  [][(/\ Step
      /\ last'.op = "removeObjectFromGroup"
      /\ Has(objects, last'.id)
      /\ Has(objects, last'.ids[1]))
     => LET g == last'.id
            c == last'.ids[1]
            before == Range(objects[g].children)
            kept == IF Has(objects', g) THEN Range(objects'[g].children) ELSE {}
        IN  IF c \in before
            THEN /\ Has(objects', c)
                 /\ objects'[c].parentId = NoId
                 /\ kept \subseteq before \ {c}
                 /\ \A k \in (before \ {c}) \cap DOMAIN objects :
                      /\ Has(objects', k)
                      /\ ~IsConnector(objects[k]) => k \in kept
                      /\ k \notin kept => objects'[k].parentId = NoId
                      /\ (k \in kept /\ IsConnector(objects'[k])) =>
                           /\ MemberOf(objects', objects'[k].startConnection.objectId, g)
                           /\ MemberOf(objects', objects'[k].endConnection.objectId, g)
                 /\ Has(objects', g) =>
                      /\ kept # {}
                      /\ BoxedChildren(objects', g) # {} =>
                           objects'[g].geometry =
                             UnionBox(objects', BoxedChildren(objects', g))
            ELSE /\ objects'[c].parentId = objects[c].parentId
                 /\ \A k \in Groups(objects) : Has(objects', k) /\ objects'[k] = objects[k]]_vars

(***************************************************************************)
(* addObject and updateObject                                              *)
(***************************************************************************)
\* The group that both connection targets of connector o are members of, NoId
\* when a target is missing or the two have different parents or none.
CommonGroup(objs, o) ==
  LET a == o.startConnection.objectId
      b == o.endConnection.objectId
  IN  IF /\ IsConnector(o) /\ a # NoId /\ b # NoId /\ Has(objs, a) /\ Has(objs, b)
         /\ objs[a].parentId = objs[b].parentId
      THEN objs[a].parentId ELSE NoId

\* C21: addObject of an arrow or line whose two connection targets exist and
\* have the same parentId G inserts it with parentId G, adds its id exactly
\* once to G.children and sets G.geometry to the padded union box of the
\* children, the connector included; in every other case the new object has
\* the parentId of the argument (none) and no existing object is changed; in
\* all cases exactly one key is added to the map.
C21_AddObjectJoinsSharedGroup ==
  [][(Step /\ last'.op = "addObject") =>
       LET id == last'.id
       IN  /\ id \notin DOMAIN objects
           /\ DOMAIN objects' = (DOMAIN objects) \cup {id}
           /\ LET g == CommonGroup(objects, objects'[id])
              IN  IF g # NoId
                  THEN /\ objects'[id].parentId = g
                       /\ Has(objects', g)
                       /\ Occurrences(objects'[g].children, id) = 1
                       /\ objects'[g].geometry =
                            UnionBox(objects', BoxedChildren(objects', g))
                  ELSE /\ objects'[id].parentId = NoId
                       /\ \A k \in DOMAIN objects : objects'[k] = objects[k]]_vars

\* Group gid has the padded union box of the children it has in the map.
Bounded(objs, gid) ==
  BoxedChildren(objs, gid) # {} =>
    objs[gid].geometry = UnionBox(objs, BoxedChildren(objs, gid))

\* C22: after updateObject(C.id, updates) on an arrow or line C whose
\* startConnection or endConnection the update changes (sets, replaces or
\* clears), C.parentId is G when both connection targets of C then have
\* parentId G and is unset otherwise; a group C left no longer lists C and is
\* re-bounded, or deleted if emptied; a group C joined lists C once and is
\* re-bounded.
C22_UpdatedConnectorJoinsOrLeaves ==
  [][(/\ Step
      /\ last'.op = "updateObject"
      /\ Has(objects, last'.id)
      /\ IsConnector(objects[last'.id])
      /\ \/ /\ "startConnection" \in last'.keys
            /\ last'.updates.startConnection # objects[last'.id].startConnection
         \/ /\ "endConnection" \in last'.keys
            /\ last'.updates.endConnection # objects[last'.id].endConnection)
     => LET c == last'.id
            p == objects[c].parentId
            q == objects'[c].parentId
        IN  /\ Has(objects', c)
            /\ "startConnection" \in last'.keys =>
                 objects'[c].startConnection = last'.updates.startConnection
            /\ "endConnection" \in last'.keys =>
                 objects'[c].endConnection = last'.updates.endConnection
            /\ q = CommonGroup(objects', objects'[c])
            /\ (p # NoId /\ p # q /\ Has(objects, p)) =>
                 IF Has(objects', p)
                 THEN /\ ~Contains(objects'[p].children, c)
                      /\ Range(objects'[p].children) # {}
                      /\ Bounded(objects', p)
                 ELSE Range(objects[p].children) \subseteq {c}
            /\ (q # NoId /\ q # p) =>
                 /\ Has(objects', q)
                 /\ Occurrences(objects'[q].children, c) = 1
                 /\ Bounded(objects', q)]_vars

\* v scaled by s about the old origin and placed at the new one, as the
\* contract states it.
ScaledAbout(v, oldOrigin, newOrigin, s) == RAdd(newOrigin, RMul(RSub(v, oldOrigin), s))

\* The geometry g is the geometry of child rescaled from the box old to the
\* box new.
RescaledFrom(g, child, old, new) ==
  LET sx == RDiv(new.width, old.width)
      sy == RDiv(new.height, old.height)
      cg == child.geometry
  IN  IF IsConnector(child)
      THEN g.points = [i \in DOMAIN cg.points |->
                         Pt(ScaledAbout(cg.points[i][1], old.x, new.x, sx),
                            ScaledAbout(cg.points[i][2], old.y, new.y, sy))]
      ELSE /\ g.x = ScaledAbout(cg.x, old.x, new.x, sx)
           /\ g.y = ScaledAbout(cg.y, old.y, new.y, sy)
           /\ g.width = RMul(cg.width, sx)
           /\ g.height = RMul(cg.height, sy)
           /\ (sx = R(1) /\ sy = R(1)) =>
                /\ g.x = RAdd(cg.x, RSub(new.x, old.x))
                /\ g.y = RAdd(cg.y, RSub(new.y, old.y))
                /\ g.width = cg.width /\ g.height = cg.height

\* C23: after updateObject(G.id, {geometry: new}) on a group G whose geometry
\* was old, every child of G is rescaled by sx = new.width / old.width and
\* sy = new.height / old.height about the group origin: an area child in x,
\* y, width and height, a connector child in every point; with sx = sy = 1
\* the children are only translated by the shift of the origin.
C23_GroupResizeRescalesChildren ==
  [][(/\ Step
      /\ last'.op = "updateObject"
      /\ Has(objects, last'.id)
      /\ objects[last'.id].type = "group"
      /\ "geometry" \in last'.keys
      /\ objects[last'.id].geometry.width # R(0)
      /\ objects[last'.id].geometry.height # R(0))
     => \A c \in BoxedChildren(objects, last'.id) :
          /\ Has(objects', c)
          /\ RescaledFrom(objects'[c].geometry, objects[c],
                          objects[last'.id].geometry, last'.updates.geometry)]_vars

(***************************************************************************)
(* updateObjects, loadFromObject and the calls that are no-ops             *)
(***************************************************************************)
\* Object o with the fields of the partial object u written over its own.
Overwritten(o, u) ==
  [o EXCEPT !.text = IF "text" \in u.keys THEN u.text ELSE @,
            !.appearFrame = IF "appearFrame" \in u.keys THEN u.appearFrame ELSE @]

\* C24: updateObjects(ids, partial, saveHistory) merges partial into every
\* object of the recursive group closure of ids that is in the map and changes
\* nothing else: objects outside the closure, connector end points, group
\* membership and group bounds are as they were, and an unknown id adds no
\* entry to the map.
C24_UpdateObjectsMergesIntoClosure ==
  [][(Step /\ last'.op = "updateObjects") =>
       /\ DOMAIN objects' = DOMAIN objects
       /\ \A k \in DOMAIN objects :
            objects'[k] = IF k \in ChildClosure(objects, Range(last'.ids))
                          THEN Overwritten(objects[k], last'.updates)
                          ELSE objects[k]]_vars

\* a bulk update of a group has reached a child of the group and left an
\* object outside the group alone
C24_Witness ==
  /\ last.op = "updateObjects"
  /\ \E g \in Range(last.ids) \cap Groups(objects) :
       /\ \E c \in LiveChildren(objects, g) :
            c \notin Range(last.ids) /\ objects[c] = Overwritten(objects[c], last.updates)
       /\ \E k \in DOMAIN objects :
            /\ k \notin ChildClosure(objects, Range(last.ids))
            /\ objects[k] # Overwritten(objects[k], last.updates)

\* C25: loadFromObject(state) makes state.objects the object map, empties the
\* selection, sets editingObjectId to null, sets currentFrame to
\* max(0, state.currentFrame) for a state that holds a currentFrame, and leaves
\* past and future as they were.
C25_LoadReplacesMapAndKeepsHistory ==
  [][(Step /\ last'.op = "loadFromObject") =>
       /\ objects' = last'.loaded.objects
       /\ ui'.selectedObjectIds = <<>>
       /\ ui'.editingObjectId = NoId
       /\ last'.loaded.currentFrame # FrameUndefined =>
            currentFrame' = IF last'.loaded.currentFrame > 0
                            THEN last'.loaded.currentFrame ELSE 0
       /\ past' = past
       /\ future' = future]_vars

\* a state with a negative frame has been loaded over a drawing with a
\* selection, an undo stack and a redo stack
C25_Witness ==
  /\ last.op = "loadFromObject"
  /\ last.loaded.currentFrame < 0 /\ last.loaded.currentFrame # FrameUndefined
  /\ currentFrame = 0
  /\ past # <<>> /\ future # <<>>
  /\ objects = last.loaded.objects /\ objects # EmptyMap
  /\ ui.selectedObjectIds = <<>>

\* C26: updateObject(id, updates, saveHistory) with an id that is not a key of
\* the object map leaves objects, past, future and the selection unchanged,
\* whether saveHistory is true or false, and does not throw.
C26_UpdateOfUnknownIdIsNoOp ==
  [][(Step /\ last'.op = "updateObject" /\ last'.id \notin DOMAIN objects) =>
       /\ objects' = objects
       /\ past' = past
       /\ future' = future
       /\ ui'.selectedObjectIds = ui.selectedObjectIds
       /\ ~last'.threw]_vars

\* an update with saveHistory was called with an id that is not in the map,
\* on a drawing that has objects, a selection and a redo stack
C26_Witness ==
  /\ last.op = "updateObject"
  /\ last.id \notin DOMAIN objects
  /\ last.hist
  /\ last.keys # {}
  /\ objects # EmptyMap
  /\ ui.selectedObjectIds # <<>>
  /\ future # <<>>

\* the handlers that take ids of objects to change
IdTakingOps ==
  {"moveObjects", "updateObjects", "deleteObjects", "ungroupObjects",
   "removeObjectFromGroup", "recalculateGroupBounds"}

\* C27: moveObjects, updateObjects, deleteObjects, ungroupObjects,
\* removeObjectFromGroup and recalculateGroupBounds called only with ids that
\* are not keys of the object map are silent no-ops: the object map, past and
\* future are the same after the call as before it.
C27_UnknownIdsAreNoOps ==
  [][(/\ Step
      /\ last'.op \in IdTakingOps
      /\ Touched(last') # {}
      /\ Touched(last') \cap DOMAIN objects = {})
     => /\ objects' = objects
        /\ past' = past
        /\ future' = future]_vars

\* C28: groupObjects(ids) with fewer than 2 ids, or with ids none of which is
\* in the map, leaves objects, past, future and the selection unchanged and
\* creates no group.
C28_GroupOfTooFewIsNoOp ==
  [][(/\ Step
      /\ last'.op = "groupObjects"
      /\ Len(last'.ids) < 2 \/ Range(last'.ids) \cap DOMAIN objects = {})
     => /\ objects' = objects
        /\ past' = past
        /\ future' = future
        /\ ui'.selectedObjectIds = ui.selectedObjectIds
        /\ Groups(objects') = Groups(objects)
        /\ ~last'.threw]_vars

\* groupObjects was called with one id of an object of the map, on a drawing
\* with a redo stack, and no group was made
C28_Witness ==
  /\ last.op = "groupObjects"
  /\ Len(last.ids) = 1
  /\ last.ids[1] \in DOMAIN objects
  /\ objects[last.ids[1]].parentId = NoId
  /\ Groups(objects) = {}
  /\ future # <<>>

(***************************************************************************)
(* copy, paste and duplicate                                               *)
(***************************************************************************)
\* the call changed neither the map, the history, the selection nor the ids
\* handed out: nothing was inserted and an empty list was returned
NothingInserted ==
  /\ objects' = objects
  /\ past' = past
  /\ future' = future
  /\ ui'.selectedObjectIds = ui.selectedObjectIds
  /\ nextId' = nextId

\* C29: while ui.editingObjectId is non-null, copy() leaves the clipboard
\* unchanged and paste() and duplicate() return an empty list and leave
\* objects, past, future and the selection unchanged; paste() with an empty
\* clipboard and duplicate() with an empty selection are no-ops too and record
\* no history.
C29_ClipboardIdleWhileEditing ==
  [][Step =>
       /\ (last'.op = "copy" /\ ui.editingObjectId # NoId) => clipboard' = clipboard
       /\ (/\ last'.op \in {"paste", "duplicate"}
           /\ ui.editingObjectId # NoId) => NothingInserted
       /\ (last'.op = "paste" /\ clipboard = <<>>) => NothingInserted
       /\ (last'.op = "duplicate" /\ ui.selectedObjectIds = <<>>) => NothingInserted]_vars

\* paste was called while a text was being edited, with objects on the
\* clipboard
C29_Witness ==
  /\ last.op = "paste"
  /\ ui.editingObjectId # NoId
  /\ clipboard # <<>>

\* Object n is a copy of the clipboard object c moved by (20, 20): the same
\* type, text, frame and size, x and y and every point 20 further.
PastedFrom(n, c) ==
  /\ n.type = c.type
  /\ n.text = c.text
  /\ n.appearFrame = c.appearFrame
  /\ n.hasGeometry = c.hasGeometry
  /\ c.hasGeometry =>
       /\ n.geometry.x = RAdd(c.geometry.x, R(20))
       /\ n.geometry.y = RAdd(c.geometry.y, R(20))
       /\ n.geometry.width = c.geometry.width
       /\ n.geometry.height = c.geometry.height
       /\ n.geometry.hasPoints = c.geometry.hasPoints
       /\ n.geometry.points =
            [i \in DOMAIN c.geometry.points |->
               Pt(RAdd(c.geometry.points[i][1], R(20)), RAdd(c.geometry.points[i][2], R(20)))]

\* the objects of the list have pairwise different ids
DistinctIds(objs) ==
  \A i, j \in DOMAIN objs : objs[i].id = objs[j].id => i = j

\* C30: paste() with a non-empty clipboard of k distinct objects adds exactly k
\* new keys to the object map, each a copy of one clipboard object translated
\* by (+20, +20) in x, y and in every connector point, leaves every object that
\* was in the map and the clipboard unchanged, pushes the map of before onto
\* past, clears future and makes the selection the k new ids in clipboard
\* order; a second paste of the same clipboard is held to the same geometry.
C30_PasteInsertsOffsetCopies ==
  [][(/\ Step
      /\ last'.op = "paste"
      /\ clipboard # <<>>
      /\ DistinctIds(clipboard)
      /\ ui.editingObjectId = NoId)
     => /\ Cardinality(DOMAIN objects' \ DOMAIN objects) = Len(clipboard)
        /\ DOMAIN objects \subseteq DOMAIN objects'
        /\ \A k \in DOMAIN objects : objects'[k] = objects[k]
        /\ Len(ui'.selectedObjectIds) = Len(clipboard)
        /\ Range(ui'.selectedObjectIds) = DOMAIN objects' \ DOMAIN objects
        /\ \A i \in DOMAIN clipboard :
             /\ objects'[ui'.selectedObjectIds[i]].id = ui'.selectedObjectIds[i]
             /\ PastedFrom(objects'[ui'.selectedObjectIds[i]], clipboard[i])
        /\ clipboard' = clipboard
        /\ past' = Append(past, objects)
        /\ future' = <<>>]_vars

\* the clipboard holds a rectangle and a connector and was pasted twice: two
\* copies of the connector with the same points are in the map, the later one
\* selected
C30_Witness ==
  /\ last.op = "paste"
  /\ Len(clipboard) = 2
  /\ \E i \in DOMAIN clipboard :
       /\ clipboard[i].geometry.hasPoints
       /\ \E a, b \in DOMAIN objects :
            /\ a # b
            /\ a \notin Range(ui.selectedObjectIds)
            /\ b = ui.selectedObjectIds[i]
            /\ PastedFrom(objects[a], clipboard[i])
            /\ PastedFrom(objects[b], clipboard[i])

\* The id that the copy of the object with id r has when the sources src were
\* copied to the ids new, and NoId when r is not the id of a source.
CopyOf(r, src, new) ==
  IF r # NoId /\ \E i \in DOMAIN src : src[i].id = r
  THEN new[CHOOSE i \in DOMAIN src : src[i].id = r]
  ELSE NoId

\* Connection c with its object replaced by the copy of the object, dropped
\* when the object has no copy.
CopiedConn(c, src, new) ==
  IF CopyOf(c.objectId, src, new) = NoId THEN NoConn
  ELSE [c EXCEPT !.objectId = CopyOf(c.objectId, src, new)]

\* Object n is the duplicate of the source o: the same type, text and
\* geometry, its references replaced by the copies of what they named.
DuplicateOf(n, o, src, new) ==
  /\ n.type = o.type
  /\ n.text = o.text
  /\ n.hasGeometry = o.hasGeometry
  /\ n.geometry = o.geometry
  /\ n.parentId = CopyOf(o.parentId, src, new)
  /\ n.hasChildren = o.hasChildren
  /\ n.children =
       LET kept == SelectSeq(o.children, LAMBDA c : CopyOf(c, src, new) # NoId)
       IN  [i \in DOMAIN kept |-> CopyOf(kept[i], src, new)]
  /\ n.startConnection = CopiedConn(o.startConnection, src, new)
  /\ n.endConnection = CopiedConn(o.endConnection, src, new)

\* C31: duplicate() copies the selected objects that are in the map: each new
\* object has the geometry of its original with no offset and its references
\* remapped as paste remaps them, the clipboard is unchanged, the objects that
\* were in the map are unchanged, the map of before is pushed onto past,
\* future is cleared and the selection becomes the new ids.
C31_DuplicateCopiesSelectionInPlace ==
  [][(/\ Step
      /\ last'.op = "duplicate"
      /\ ui.selectedObjectIds # <<>>
      /\ ui.editingObjectId = NoId
      /\ DistinctIds(Lookup(objects, ui.selectedObjectIds)))
     => LET src == Lookup(objects, ui.selectedObjectIds)
            new == ui'.selectedObjectIds
        IN  /\ Len(new) = Len(src)
            /\ Cardinality(Range(new)) = Len(src)
            /\ Range(new) = DOMAIN objects' \ DOMAIN objects
            /\ \A i \in DOMAIN src :
                 /\ objects'[new[i]].id = new[i]
                 /\ DuplicateOf(objects'[new[i]], src[i], src, new)
            /\ \A k \in DOMAIN objects : objects'[k] = objects[k]
            /\ clipboard' = clipboard
            /\ past' = Append(past, objects)
            /\ future' = <<>>]_vars

\* a rectangle and the arrow from it to another rectangle were duplicated with
\* objects on the clipboard: the copy of the arrow has the points of the
\* arrow, starts at the copy of the rectangle and has lost its other end
C31_Witness ==
  /\ last.op = "duplicate"
  /\ clipboard # <<>>
  /\ \E a, r \in Range(ui.selectedObjectIds) :
       /\ Has(objects, a) /\ IsConnector(objects[a])
       /\ objects[a].startConnection # NoConn
       /\ objects[a].startConnection.objectId = r
       /\ objects[a].endConnection = NoConn
       /\ \E b \in DOMAIN objects \ Range(ui.selectedObjectIds) :
            /\ IsConnector(objects[b])
            /\ objects[b].geometry = objects[a].geometry
            /\ objects[b].endConnection # NoConn

(***************************************************************************)
(* A drag as one history entry (checked under DragSpec)                    *)
(***************************************************************************)
\* C32: a drag is one history entry.  After saveHistory() and any number of
\* moveObjects / updateObject calls with saveHistory = false, past is one
\* entry longer than before the drag and its last entry is the map of the
\* start of the drag; one undo() restores that map and the length of past;
\* the redo() that follows restores the map of the end of the drag.
C32_DragIsOneHistoryEntry ==
  /\ last.op \in {"saveHistory", "moveObjects", "updateObject"} =>
       /\ Len(past) = last.len + 1
       /\ past[Len(past)] = last.start
  /\ last.op = "undo" =>
       /\ objects = last.start
       /\ Len(past) = last.len
  /\ last.op = "redo" =>
       /\ objects = last.end
       /\ Len(past) = last.len + 1
       /\ past[Len(past)] = last.start

\* a drag of two calls that changed the map was undone and redone
C32_Witness ==
  /\ last.op = "redo"
  /\ last.n = MaxDragCalls
  /\ last.end # last.start
  /\ objects = last.end

(***************************************************************************)
(* Faults and the shape of the map                                         *)
(***************************************************************************)
\* C33: no call of the mutation API reaches a fault, in any reachable state
\* and for any arguments: every call ends in a new state or in a no-op.
C33_NoCallFaults ==
  [][Step => ~last'.threw]_vars

\* C34: after updateObject(G.id, {geometry}) resizes a group G, every arrow or
\* line bound by startConnection or endConnection to a child O of G, whether
\* the connector is a child of G or lies outside G, has the bound end at the
\* anchor of O computed from the rescaled geometry of O.
C34_ConnectorsFollowResizedChildren ==
  [][(/\ Step
      /\ last'.op = "updateObject"
      /\ "geometry" \in last'.keys
      /\ Has(objects, last'.id)
      /\ objects[last'.id].type = "group")
     => \A o \in LiveChildren(objects, last'.id) :
          \A k \in DOMAIN objects :
            (/\ objects[o].type \in AreaShapeTypes
             /\ IsConnector(objects[k])
             /\ o \in {objects[k].startConnection.objectId,
                       objects[k].endConnection.objectId})
            => /\ Has(objects', k) /\ Has(objects', o)
               /\ IsConnector(objects'[k])
               /\ Anchored(objects'[k], objects'[o])]_vars

\* C35: in every reachable state the links between parents and children are
\* mutually consistent: every id in the children of a group is in the map with
\* parentId that group, every parentId names a group of the map whose children
\* contain the object, and no id occurs twice in one children list.
C35_LinksAreConsistent ==
  /\ \A g \in Groups(objects) :
       \A i \in DOMAIN objects[g].children :
         LET c == objects[g].children[i]
         IN  /\ Has(objects, c)
             /\ objects[c].parentId = g
             /\ Occurrences(objects[g].children, c) = 1
  /\ \A k \in DOMAIN objects :
       objects[k].parentId # NoId =>
         /\ objects[k].parentId \in Groups(objects)
         /\ Contains(objects[objects[k].parentId].children, k)

\* C36: after any operation every key k of the object map maps to an object
\* whose id is k and which has a type and a geometry, and no children list
\* holds an id that is not in the map; groupObjects(ids) with ids that mix
\* objects of the map and unknown ids adds no entry for an unknown id.
C36_EntriesAreObjects ==
  [][Step =>
       /\ \A k \in DOMAIN objects' :
            /\ objects'[k].id = k
            /\ objects'[k].type # "undefined"
            /\ objects'[k].hasGeometry
       /\ last'.op = "groupObjects" =>
            /\ (Range(last'.ids) \ DOMAIN objects) \cap DOMAIN objects' = {}
            /\ \A g \in Groups(objects') :
                 Range(objects'[g].children) \cap (Range(last'.ids) \ DOMAIN objects) = {}]_vars

(***************************************************************************)
(* deleteObjects: survivors, selection, connections                        *)
(***************************************************************************)
\* Object k is one a delete of the closure D may change: a group with a
\* descendant in D, or a connector with an end bound to an object of D.
DeleteMayChange(objs, k, D) ==
  \/ objs[k].type = "group" /\ (ChildClosure(objs, {k}) \ {k}) \cap D # {}
  \/ /\ IsConnector(objs[k])
     /\ {objs[k].startConnection.objectId, objs[k].endConnection.objectId} \cap D # {}

\* C37: deleteObjects(ids) leaves unchanged every surviving object that is
\* neither a group that had a member in the deleted closure nor a connector
\* with a connection to a deleted object; a group none of whose descendants
\* was deleted keeps its children, its members' parentId and its geometry.
C37_DeleteLeavesOthersAlone ==
  [][(Step /\ last'.op = "deleteObjects") =>
       \A k \in DOMAIN objects \ ChildClosure(objects, Range(last'.ids)) :
         ~DeleteMayChange(objects, k, ChildClosure(objects, Range(last'.ids)))
         => Has(objects', k) /\ objects'[k] = objects[k]]_vars

\* C38: if every selected id is a key of the map before deleteObjects(ids) or
\* removeObjectFromGroup, every selected id is a key of the map afterwards,
\* also when the cleanup pass dissolves a group, and editingObjectId is null
\* or names an object of the map.
C38_SelectionSurvivesRemoval ==
  [][(/\ Step
      /\ last'.op \in {"deleteObjects", "removeObjectFromGroup"}
      /\ Range(ui.selectedObjectIds) \subseteq DOMAIN objects)
     => /\ Range(ui'.selectedObjectIds) \subseteq DOMAIN objects'
        /\ ui'.editingObjectId = NoId \/ Has(objects', ui'.editingObjectId)]_vars

\* C39: in every reachable state every startConnection.objectId and
\* endConnection.objectId of an arrow or line of the map names an object of
\* the map: a delete leaves no surviving connector bound to a deleted shape.
C39_ConnectionsNameObjects ==
  \A k \in DOMAIN objects :
    IsConnector(objects[k]) =>
      /\ objects[k].startConnection # NoConn =>
           Has(objects, objects[k].startConnection.objectId)
      /\ objects[k].endConnection # NoConn =>
           Has(objects, objects[k].endConnection.objectId)

(***************************************************************************)
(* The groups form a forest                                                *)
(***************************************************************************)
\* C40: in every reachable state the parentId relation is acyclic: no object
\* is its own ancestor, and no group is reached from its own children list,
\* so the recursive closure of delete, move and updateObjects, which follows
\* children, meets each object once.
C40_GroupsFormAForest ==
  \A k \in DOMAIN objects :
    /\ k \notin AncestorsOf(objects, k, {})
    /\ k \notin ChildClosure(objects, Range(objects[k].children))

\* groupObjects has put a group that has a group among its children into a
\* new group: the map holds an object with three groups above it
C40_Witness ==
  /\ last.op = "groupObjects"
  /\ ~last.threw
  /\ \E k \in DOMAIN objects :
       /\ Cardinality(AncestorsOf(objects, k, {})) = 3
       /\ \A a \in AncestorsOf(objects, k, {}) : Has(objects, a) /\ objects[a].type = "group"

=============================================================================
